---------------------------- MODULE Spec2Model ----------------------------
(***************************************************************************)
(* Model of the workflow graph renderer of hubspot-mcp                     *)
(* (src/hubspot-mcp-custom/src/utils/workflow-renderer.ts, lines 1-621)    *)
(* and of the two lazy caches (workflow-cache.ts, pipeline-cache.ts).      *)
(*                                                                         *)
(* The renderer is a recursive function; here its recursion is an explicit *)
(* stack of frames, one frame per renderAction activation that is waiting  *)
(* for a callee.  Text is modelled as text: every line of the diagram is a *)
(* string and the layout arithmetic is the code's.  Strings of a module    *)
(* are ASCII, so each box-drawing glyph of the source is written as one    *)
(* ASCII character that occurs nowhere else in a diagram (widths are       *)
(* unchanged, every glyph being one UTF-16 unit in the source):            *)
(*     ─ ~    │ |    ┌ {    ┐ }    └ <    ┘ >    ┬ +    ▼ !    → @         *)
(*     ═ #    ║ ;    ╔ *    ╗ &    ╚ ,    ╝ ?    ╤ _                       *)
(***************************************************************************)
EXTENDS Integers, Sequences, FiniteSets, TLC

\* ------------------------------------------------------------------ glyphs
HLine      == "~"
VLine      == "|"
TopLeft    == "{"
TopRight   == "}"
BotLeft    == "<"
BotRight   == ">"
TeeDown    == "+"
ArrowDown  == "!"
ArrowRight == "@"
DHLine     == "#"
DVLine     == ";"
DTopLeft   == "*"
DTopRight  == "&"
DBotLeft   == ","
DBotRight  == "?"
DTeeDown   == "_"

\* A value that is absent (undefined / null) where the code expects a string.
Undef == "<undefined>"

\* JavaScript truthiness of an optional string.
Truthy(s) == s # Undef /\ s # ""

\* a ?? b on optional strings.
Coalesce(a, b) == IF a # Undef THEN a ELSE b

\* ------------------------------------------------------------ arithmetic
Max(a, b) == IF a >= b THEN a ELSE b

Floor2(n) == n \div 2

\* Math.ceil(n / 2 - 1) for an integer n.
CeilHalfMinus1(n) == ((n + 1) \div 2) - 1

\* ---------------------------------------------------------------- strings
RECURSIVE Repeat(_, _)
\* String.prototype.repeat for a count >= 0.
Repeat(s, n) == IF n <= 0 THEN "" ELSE s \o Repeat(s, n - 1)

CharAt(s, i) == SubSeq(s, i, i)

RECURSIVE JoinRange(_, _, _, _)
\* The elements lo..hi of lines with sep between them (lo <= hi).
JoinRange(lines, sep, lo, hi) ==
    IF lo = hi THEN lines[lo]
    ELSE LET mid == (lo + hi) \div 2
         IN  JoinRange(lines, sep, lo, mid) \o sep \o JoinRange(lines, sep, mid + 1, hi)

\* Array.prototype.join.
Join(lines, sep) == IF Len(lines) = 0 THEN "" ELSE JoinRange(lines, sep, 1, Len(lines))

\* Math.max(floor, ...lines.map(l => l.length))
MaxLineLen(lines, floor) ==
    LET lengths == {Len(lines[i]) : i \in 1..Len(lines)} \cup {floor}
    IN  CHOOSE m \in lengths : \A n \in lengths : n <= m

UpperChars == "ABCDEFGHIJKLMNOPQRSTUVWXYZ"
LowerChars == "abcdefghijklmnopqrstuvwxyz"

RECURSIVE IndexIn(_, _, _)
\* Position of the one-character string c in s at or after i, 0 if none.
IndexIn(s, c, i) ==
    IF i > Len(s) THEN 0
    ELSE IF CharAt(s, i) = c THEN i
    ELSE IndexIn(s, c, i + 1)

LowerChar(c) ==
    LET k == IndexIn(UpperChars, c, 1)
    IN  IF k = 0 THEN c ELSE CharAt(LowerChars, k)

RECURSIVE LowerFrom(_, _)
LowerFrom(s, i) ==
    IF i > Len(s) THEN "" ELSE LowerChar(CharAt(s, i)) \o LowerFrom(s, i + 1)

\* String.prototype.toLowerCase on ASCII text.
ToLowerCase(s) == LowerFrom(s, 1)

RECURSIVE ReplaceFrom(_, _)
ReplaceFrom(s, i) ==
    IF i > Len(s) THEN ""
    ELSE (IF CharAt(s, i) = "_" THEN " " ELSE CharAt(s, i)) \o ReplaceFrom(s, i + 1)

\* s.replace(/_/g, " ")
ReplaceUnderscores(s) == ReplaceFrom(s, 1)

\* Number of occurrences of the one-character string c in s.
CountChar(s, c) == Cardinality({i \in 1..Len(s) : CharAt(s, i) = c})

\* String.prototype.includes
Includes(s, t) == \E i \in 1..(Len(s) - Len(t) + 1) : SubSeq(s, i, i + Len(t) - 1) = t

RECURSIVE SplitFrom(_, _, _, _, _)
SplitFrom(s, i, cur, acc, inWs) ==
    IF i > Len(s) THEN Append(acc, cur)
    ELSE IF CharAt(s, i) = " "
         THEN IF inWs THEN SplitFrom(s, i + 1, cur, acc, TRUE)
              ELSE SplitFrom(s, i + 1, "", Append(acc, cur), TRUE)
         ELSE SplitFrom(s, i + 1, cur \o CharAt(s, i), acc, FALSE)

\* text.split(/\s+/): the pieces between maximal runs of white space, the
\* empty pieces before a leading and after a trailing run included.
SplitWhitespace(s) == SplitFrom(s, 1, "", <<>>, FALSE)

\* ------------------------------------------------------------ text layout
centerText(text, width) ==
    LET pad   == Max(0, width - Len(text))
        left  == Floor2(pad)
        right == pad - left
    IN  Repeat(" ", left) \o text \o Repeat(" ", right)

RECURSIVE WrapFrom(_, _, _, _, _)
WrapFrom(words, i, current, lines, maxWidth) ==
    IF i > Len(words)
    THEN IF current # "" THEN Append(lines, current) ELSE lines
    ELSE LET word == words[i]
         IN  IF Len(current) + Len(word) + 1 > maxWidth
             THEN WrapFrom(words, i + 1, word,
                           IF current # "" THEN Append(lines, current) ELSE lines,
                           maxWidth)
             ELSE WrapFrom(words, i + 1,
                           IF current # "" THEN current \o " " \o word ELSE word,
                           lines, maxWidth)

wrapLines(text, maxWidth) ==
    LET lines == WrapFrom(SplitWhitespace(text), 1, "", <<>>, maxWidth)
    IN  IF Len(lines) > 0 THEN lines ELSE <<"">>

BoxMinWidth == 16

BoxRows(lines, contentWidth) ==
    [i \in 1..Len(lines) |->
        VLine \o " " \o centerText(lines[i], contentWidth) \o " " \o VLine]

renderBox(lines) ==
    LET contentWidth == MaxLineLen(lines, BoxMinWidth)
        border       == Repeat(HLine, contentWidth + 2)
    IN  <<TopLeft \o border \o TopRight>>
        \o BoxRows(lines, contentWidth)
        \o <<BotLeft \o Repeat(HLine, Floor2(contentWidth + 2)) \o TeeDown
                     \o Repeat(HLine, CeilHalfMinus1(contentWidth + 2)) \o BotRight>>

renderTerminalBox(lines) ==
    LET contentWidth == MaxLineLen(lines, BoxMinWidth)
        border       == Repeat(HLine, contentWidth + 2)
    IN  <<TopLeft \o border \o TopRight>>
        \o BoxRows(lines, contentWidth)
        \o <<BotLeft \o border \o BotRight>>

indentLines(lines, spaces) ==
    [i \in 1..Len(lines) |-> Repeat(" ", spaces) \o lines[i]]

centerLines(lines, totalWidth) ==
    IF Len(lines) = 0 THEN <<>>
    ELSE LET maxLineWidth == MaxLineLen(lines, 0)
             pad == Max(0, Floor2(totalWidth - maxLineWidth))
         IN  indentLines(lines, pad)

\* ----------------------------------------------------------- JS values
\* Field values of an action are untyped in the source (unknown); a value is
\* one of: absent, a string, a number or a nested object (a map of values).
VUndef  == [k |-> "undef"]
VStr(s) == [k |-> "str", s |-> s]
VNum(n) == [k |-> "num", n |-> n]
VObj(o) == [k |-> "obj", o |-> o]

\* JavaScript truthiness of a value.
ValTruthy(v) ==
    CASE v.k = "undef" -> FALSE
      [] v.k = "str"   -> v.s # ""
      [] v.k = "num"   -> v.n # 0
      [] OTHER         -> TRUE

\* String(v), also what a template literal prints.
ValToString(v) ==
    CASE v.k = "undef" -> "undefined"
      [] v.k = "str"   -> v.s
      [] v.k = "num"   -> ToString(v.n)
      [] OTHER         -> "[object Object]"

\* a ?? b
ValCoalesce(a, b) == IF a.k # "undef" THEN a ELSE b

Digits == "0123456789"

RECURSIVE ParseDigits(_, _, _)
\* The number a string of decimal digits denotes, -1 (NaN) for other text.
ParseDigits(s, i, acc) ==
    IF i > Len(s) THEN acc
    ELSE LET d == IndexIn(Digits, CharAt(s, i), 1)
         IN  IF d = 0 THEN -1 ELSE ParseDigits(s, i + 1, acc * 10 + (d - 1))

NaN == -1

\* Number(v) on the values a delay field holds (non-negative counts).
ValToNumber(v) ==
    CASE v.k = "num" -> v.n
      [] v.k = "str" -> IF v.s = "" THEN 0 ELSE ParseDigits(v.s, 1, 0)
      [] OTHER       -> NaN

\* Math.round(a / b) for a >= 0, b > 0.
RoundDiv(a, b) == (2 * a + b) \div (2 * b)

startsWith(s, t) == Len(s) >= Len(t) /\ SubSeq(s, 1, Len(t)) = t

endsWith(s, t) == Len(s) >= Len(t) /\ SubSeq(s, Len(s) - Len(t) + 1, Len(s)) = t

\* s.slice(0, n)
SliceTo(s, n) == IF Len(s) <= n THEN s ELSE SubSeq(s, 1, n)

\* ----------------------------------------------------------- action labels
ACTION_LABELS ==
    ("0-1" :> "Delay") @@ ("0-2" :> "IF/THEN") @@ ("0-3" :> "Send Email") @@
    ("0-4" :> "Send Internal Email") @@ ("0-5" :> "Set Property") @@
    ("0-6" :> "Copy Property") @@ ("0-7" :> "Create Task") @@
    ("0-8" :> "Send Notification") @@ ("0-9" :> "Add to List") @@
    ("0-10" :> "Remove from List") @@ ("0-11" :> "Webhook") @@
    ("0-12" :> "Delay Until Date") @@ ("0-13" :> "Create Record") @@
    ("0-14" :> "Delete Record") @@ ("0-15" :> "Enroll in Workflow") @@
    ("0-16" :> "Unenroll from Workflow") @@ ("0-17" :> "Rotate Owner") @@
    ("0-18" :> "Custom Code") @@ ("0-19" :> "Format Data") @@
    ("0-20" :> "A/B Test") @@ ("0-21" :> "Value Branch") @@
    ("0-22" :> "Send In-App Email") @@ ("0-35" :> "Manage Subscription") @@
    ("SEND_EMAIL" :> "Send Email") @@ ("SEND_IN_APP_EMAIL" :> "Send In-App Email") @@
    ("DELAY" :> "Delay") @@ ("DELAY_UNTIL_DATE" :> "Delay Until Date") @@
    ("IF_THEN_BRANCH" :> "IF/THEN") @@ ("VALUE_BRANCH" :> "Value Branch") @@
    ("RANDOM_BRANCH" :> "A/B Test") @@ ("SET_CONTACT_PROPERTY" :> "Set Property") @@
    ("SET_COMPANY_PROPERTY" :> "Set Property") @@ ("SET_DEAL_PROPERTY" :> "Set Property") @@
    ("SET_TICKET_PROPERTY" :> "Set Property") @@ ("COPY_PROPERTY" :> "Copy Property") @@
    ("CREATE_RECORD" :> "Create Record") @@ ("DELETE_RECORD" :> "Delete Record") @@
    ("ENROLL_IN_WORKFLOW" :> "Enroll in Workflow") @@
    ("UNENROLL_FROM_WORKFLOW" :> "Unenroll from Workflow") @@
    ("ADD_TO_LIST" :> "Add to List") @@ ("REMOVE_FROM_LIST" :> "Remove from List") @@
    ("CREATE_TASK" :> "Create Task") @@ ("SEND_NOTIFICATION" :> "Send Notification") @@
    ("SEND_INTERNAL_EMAIL" :> "Send Internal Email") @@ ("WEBHOOK" :> "Webhook") @@
    ("CUSTOM_CODE" :> "Custom Code") @@ ("ROTATE_OWNER" :> "Rotate Owner") @@
    ("FORMAT_DATA" :> "Format Data") @@ ("MANAGE_SUBSCRIPTION" :> "Manage Subscription")

getActionLabel(actionTypeId) ==
    IF ~Truthy(actionTypeId) THEN "Branch"
    ELSE IF actionTypeId \in DOMAIN ACTION_LABELS THEN ACTION_LABELS[actionTypeId]
    ELSE actionTypeId

\* --------------------------------------------------------- detail extraction
\* fields is a map from field name to value; NoFields is an absent bag.
NoFields == <<>>

getFieldValue(fields, key) ==
    IF key \notin DOMAIN fields THEN VUndef
    ELSE LET val == fields[key]
         IN  IF val.k # "obj" THEN val
             ELSE LET obj == val.o
                  IN  IF "staticValue" \in DOMAIN obj THEN obj["staticValue"]
                      ELSE IF "type" \in DOMAIN obj /\ obj["type"] = VStr("TIMESTAMP")
                      THEN LET ts == IF "timestampType" \in DOMAIN obj
                                     THEN obj["timestampType"] ELSE VUndef
                           IN  IF ts = VStr("EXECUTION_TIME") THEN VStr("(current date/time)")
                               ELSE IF ValTruthy(ts)
                               THEN VStr("(" \o ReplaceUnderscores(ToLowerCase(ValToString(ts))) \o ")")
                               ELSE VStr("(timestamp)")
                      ELSE IF "type" \in DOMAIN obj
                      THEN VStr("(" \o ReplaceUnderscores(ToLowerCase(ValToString(obj["type"]))) \o ")")
                      ELSE val

\* getFieldValue(fields, a) ?? getFieldValue(fields, b)
Field2(fields, a, b) == ValCoalesce(getFieldValue(fields, a), getFieldValue(fields, b))

MsPerDay    == 86400000
MsPerHour   == 3600000
MsPerMinute == 60000
MsPerSecond == 1000

\* The delay text with the unit as it is stored, not lowercased.
DelayDetailAsStored(fields) ==
    LET delta    == getFieldValue(fields, "delta")
        timeUnit == getFieldValue(fields, "time_unit")
        amount   == Field2(fields, "delay.amount", "delayMillis")
        unit     == getFieldValue(fields, "delay.unit")
    IN  IF ValTruthy(delta) /\ ValTruthy(timeUnit)
        THEN ValToString(delta) \o " " \o ValToString(timeUnit)
        ELSE IF ValTruthy(amount) /\ ValTruthy(unit)
        THEN ValToString(amount) \o " " \o ValToString(unit)
        ELSE Undef

DelayDetail(fields) ==
    LET delta    == getFieldValue(fields, "delta")
        timeUnit == getFieldValue(fields, "time_unit")
        amount   == Field2(fields, "delay.amount", "delayMillis")
        unit     == getFieldValue(fields, "delay.unit")
        ms       == ValToNumber(amount)
    IN  IF ValTruthy(delta) /\ ValTruthy(timeUnit)
        THEN ValToString(delta) \o " " \o ToLowerCase(ValToString(timeUnit))
        ELSE IF ValTruthy(amount) /\ ValTruthy(unit)
        THEN ToLowerCase(ValToString(amount) \o " " \o ValToString(unit))
        ELSE IF ValTruthy(amount) /\ ms # NaN
        THEN IF ms >= MsPerDay THEN ToString(RoundDiv(ms, MsPerDay)) \o " days"
             ELSE IF ms >= MsPerHour THEN ToString(RoundDiv(ms, MsPerHour)) \o " hours"
             ELSE IF ms >= MsPerMinute THEN ToString(RoundDiv(ms, MsPerMinute)) \o " minutes"
             ELSE ToString(RoundDiv(ms, MsPerSecond)) \o " seconds"
        ELSE Undef

SetPropertyDetail(fields) ==
    LET prop == Field2(fields, "property_name", "propertyName")
        val  == Field2(fields, "value", "propertyValue")
        valStr == ValToString(val)
        truncated == IF Len(valStr) > 50 THEN SliceTo(valStr, 47) \o "..." ELSE valStr
    IN  IF ValTruthy(prop) /\ ValTruthy(val) THEN ValToString(prop) \o " = " \o truncated
        ELSE IF ValTruthy(prop) THEN ValToString(prop)
        ELSE Undef

SendEmailDetail(fields) ==
    LET emailId == ValCoalesce(Field2(fields, "emailId", "email"),
                               getFieldValue(fields, "content_id"))
    IN  IF ValTruthy(emailId) THEN "ID: " \o ValToString(emailId) ELSE Undef

CopyPropertyDetail(fields) ==
    LET src == Field2(fields, "sourceProperty", "source_property")
        dst == Field2(fields, "targetProperty", "target_property")
    IN  IF ValTruthy(src) /\ ValTruthy(dst)
        THEN ValToString(src) \o " " \o ArrowRight \o " " \o ValToString(dst)
        ELSE Undef

WebhookDetail(fields) ==
    LET method == ValCoalesce(Field2(fields, "httpMethod", "method"), VStr("POST"))
        url    == Field2(fields, "url", "webhookUrl")
        urlStr == ValToString(url)
        truncated == IF Len(urlStr) > 40 THEN SliceTo(urlStr, 37) \o "..." ELSE urlStr
    IN  IF ValTruthy(url) THEN ValToString(method) \o " " \o truncated ELSE Undef

CustomCodeDetail(fields) ==
    LET runtime == Field2(fields, "runtime", "language")
    IN  IF ValTruthy(runtime) THEN "Runtime: " \o ValToString(runtime) ELSE Undef

CreateTaskDetail(fields) ==
    LET subject == Field2(fields, "subject", "taskSubject")
    IN  IF ValTruthy(subject)
        THEN "\"" \o SliceTo(ValToString(subject), 30) \o "\""
        ELSE Undef

\* The detail line of an action, Undef (null) when it has none.
extractDetail(action) ==
    LET fields == action.fields
        typeId == Coalesce(action.actionTypeId, "")
    IN  IF typeId = "" THEN Undef
        ELSE IF typeId = "0-5" \/ (startsWith(typeId, "SET_") /\ endsWith(typeId, "_PROPERTY"))
        THEN SetPropertyDetail(fields)
        ELSE IF typeId \in {"0-1", "DELAY"} THEN DelayDetail(fields)
        ELSE IF typeId \in {"0-3", "0-4", "0-22", "SEND_EMAIL", "SEND_IN_APP_EMAIL",
                            "SEND_INTERNAL_EMAIL"}
        THEN SendEmailDetail(fields)
        ELSE IF typeId \in {"0-6", "COPY_PROPERTY"} THEN CopyPropertyDetail(fields)
        ELSE IF typeId \in {"0-11", "WEBHOOK"} THEN WebhookDetail(fields)
        ELSE IF typeId \in {"0-18", "CUSTOM_CODE"} THEN CustomCodeDetail(fields)
        ELSE IF typeId \in {"0-7", "CREATE_TASK"} THEN CreateTaskDetail(fields)
        ELSE Undef

DetailWrapWidth == 28

\* The text lines of an action's box: "<step>. <Label>" and the wrapped detail.
BoxLines(action, stepNum) ==
    LET label  == getActionLabel(action.actionTypeId)
        detail == extractDetail(action)
        wrapped == wrapLines(detail, DetailWrapWidth)
    IN  <<ToString(stepNum) \o ". " \o label>>
        \o (IF Truthy(detail)
            THEN [i \in 1..Len(wrapped) |-> "   " \o wrapped[i]]
            ELSE <<>>)

\* ------------------------------------------------------------------ header
EVENT_TYPE_LABELS ==
    ("4" :> "Form submission") @@ ("6" :> "Page view") @@ ("10" :> "Email open") @@
    ("11" :> "Email click") @@ ("1" :> "Contact property change") @@
    ("3" :> "Deal property change")

\* eventId.split("-")[0]
PrefixBeforeDash(s) ==
    LET k == IndexIn(s, "-", 1)
    IN  IF k = 0 THEN s ELSE SubSeq(s, 1, k - 1)

EventLine(branch) ==
    LET eventId    == Coalesce(branch.eventTypeId, "")
        prefix     == PrefixBeforeDash(eventId)
        eventLabel == IF prefix \in DOMAIN EVENT_TYPE_LABELS
                      THEN EVENT_TYPE_LABELS[prefix] ELSE "Event " \o eventId
        op == IF branch.operator = "HAS_COMPLETED" THEN "completed"
              ELSE ToLowerCase(Coalesce(branch.operator, ""))
    IN  "When: " \o eventLabel \o " " \o op

RECURSIVE ListMembershipLines(_, _)
\* One line per IN_LIST filter with a list id, over the filters of one branch.
ListMembershipLines(filters, i) ==
    IF i > Len(filters) THEN <<>>
    ELSE (IF filters[i].filterType = "IN_LIST" /\ Truthy(filters[i].listId)
          THEN <<"When: Added to list " \o filters[i].listId>> ELSE <<>>)
         \o ListMembershipLines(filters, i + 1)

RECURSIVE PropertyFilterLines(_, _)
\* One line per PROPERTY filter with a property name, over one branch.
PropertyFilterLines(filters, i) ==
    IF i > Len(filters) THEN <<>>
    ELSE (IF filters[i].filterType = "PROPERTY" /\ Truthy(filters[i].property)
          THEN <<"When: " \o filters[i].property \o " "
                  \o (IF filters[i].operator = Undef THEN ""
                      ELSE ReplaceUnderscores(ToLowerCase(filters[i].operator)))>>
          ELSE <<>>)
         \o PropertyFilterLines(filters, i + 1)

RECURSIVE OverBranches(_, _, _)
\* The lines of every branch's filters, in order; kind selects the filter rule.
OverBranches(branches, i, kind) ==
    IF i > Len(branches) THEN <<>>
    ELSE (IF kind = "list" THEN ListMembershipLines(branches[i].filters, 1)
          ELSE PropertyFilterLines(branches[i].filters, 1))
         \o OverBranches(branches, i + 1, kind)

\* ec is the flow's enrollmentCriteria; NoCriteria when the flow has none.
NoCriteria == [absent |-> TRUE]

describeTrigger(ec) ==
    IF ec = NoCriteria THEN <<>>
    ELSE LET reEnroll == IF ec.shouldReEnroll THEN "Re-enroll: on" ELSE "Re-enroll: off"
             events   == ec.eventFilterBranches
             eventLines == [i \in 1..Len(events) |-> EventLine(events[i])]
                           \o OverBranches(ec.listMembershipFilterBranches, 1, "list")
             filterLines == OverBranches(ec.listFilterBranch, 1, "property")
             lines ==
                IF ec.type = "EVENT_BASED"
                THEN IF Len(eventLines) = 0 THEN <<"Trigger: Event-based">> ELSE eventLines
                ELSE IF ec.type = "LIST_BASED"
                THEN IF Len(filterLines) = 0 THEN <<"Trigger: Filter-based">> ELSE filterLines
                ELSE IF Truthy(ec.type)
                THEN <<"Trigger: " \o ReplaceUnderscores(ToLowerCase(ec.type))>>
                ELSE <<>>
         IN  Append(lines, reEnroll)

HeaderMinWidth == 30

\* The text lines of the header box: title, then the trigger description.
HeaderLines(flow) ==
    LET status == IF flow.isEnabled THEN "enabled" ELSE "disabled"
        title  == flow.name \o " (" \o status \o ")"
        triggerLines == describeTrigger(flow.enrollmentCriteria)
    IN  IF Len(triggerLines) > 0 THEN <<title, "">> \o triggerLines
        ELSE IF Truthy(flow.triggerType) THEN <<title, "Trigger: " \o flow.triggerType>>
        ELSE <<title>>

\* The header block of renderWorkflow: the double-lined box around HeaderLines.
HeaderBlock(flow) ==
    LET headerLines  == HeaderLines(flow)
        contentWidth == MaxLineLen(headerLines, HeaderMinWidth)
        border       == Repeat(DHLine, contentWidth + 2)
        midBorder    == Repeat(DHLine, Floor2(contentWidth + 2)) \o DTeeDown
                        \o Repeat(DHLine, CeilHalfMinus1(contentWidth + 2))
    IN  <<DTopLeft \o border \o DTopRight>>
        \o [i \in 1..Len(headerLines) |->
              DVLine \o " " \o centerText(headerLines[i], contentWidth) \o " " \o DVLine]
        \o <<DBotLeft \o midBorder \o DBotRight>>

NoActionsLines == <<"        " \o VLine, "    (no actions)">>

\* ------------------------------------------------------------ branch layout
MinColumnWidth == 8
ColumnGap      == 2

\* Width of one branch column: label in brackets, widest line, or the minimum.
ColWidth(col) ==
    Max(Max(Len(col.label) + 2, MaxLineLen(col.lines, 0)), MinColumnWidth)

RECURSIVE SumWidths(_, _)
SumWidths(columns, i) ==
    IF i > Len(columns) THEN 0 ELSE ColWidth(columns[i]) + SumWidths(columns, i + 1)

TotalBranchWidth(columns) == SumWidths(columns, 1) + ColumnGap * (Len(columns) - 1)

\* The left edge (cursor) of column i when the first column starts at start.
ColStart(columns, i, start) == start + SumWidths(SubSeq(columns, 1, i - 1), 1) + ColumnGap * (i - 1)

\* The horizontal offset of the centre of column i.
ColCenter(columns, i, start) == ColStart(columns, i, start) + Floor2(ColWidth(columns[i]))

RECURSIVE SplitLineFrom(_, _, _, _)
\* The split line built left to right; acc is the text pushed so far.
SplitLineFrom(columns, i, start, acc) ==
    IF i > Len(columns)
    THEN IF Len(columns) = 1 THEN acc \o TopRight ELSE acc
    ELSE LET colCenter == ColCenter(columns, i, start)
         IN  IF i = 1
             THEN SplitLineFrom(columns, i + 1, start, Repeat(" ", colCenter) \o TopLeft)
             ELSE LET fill == colCenter - Len(acc)
                      end  == IF i < Len(columns) THEN TeeDown ELSE TopRight
                  IN  SplitLineFrom(columns, i + 1, start,
                                    acc \o Repeat(HLine, fill) \o end)

RECURSIVE ConnectorLineFrom(_, _, _, _, _)
\* The row of down arrows; pos is the offset after the last arrow pushed.
ConnectorLineFrom(columns, i, start, pos, acc) ==
    IF i > Len(columns) THEN acc
    ELSE LET colCenter == ColCenter(columns, i, start)
         IN  ConnectorLineFrom(columns, i + 1, start, colCenter + 1,
                               acc \o Repeat(" ", colCenter - pos) \o ArrowDown)

LabelsRow(columns) ==
    Join([i \in 1..Len(columns) |->
            centerText("[" \o columns[i].label \o "]", ColWidth(columns[i]))],
         Repeat(" ", ColumnGap))

RECURSIVE MaxHeightFrom(_, _)
MaxHeightFrom(columns, i) ==
    IF i > Len(columns) THEN 0
    ELSE Max(Len(columns[i].lines), MaxHeightFrom(columns, i + 1))

\* Row number row of the columns side by side, each padded to its width.
ColumnsRow(columns, row) ==
    Join([i \in 1..Len(columns) |->
            LET line == IF row <= Len(columns[i].lines) THEN columns[i].lines[row] ELSE ""
            IN  line \o Repeat(" ", Max(0, ColWidth(columns[i]) - Len(line)))],
         Repeat(" ", ColumnGap))

\* What renderBranch returns once every column has been rendered.
BranchLayout(boxLines, columns) ==
    LET headerBox   == renderTerminalBox(boxLines)
        headerWidth == Len(headerBox[1])
        totalBranchWidth == TotalBranchWidth(columns)
        totalWidth  == Max(headerWidth, totalBranchWidth)
        start       == Max(0, Floor2(totalWidth - totalBranchWidth))
        maxHeight   == MaxHeightFrom(columns, 1)
    IN  centerLines(headerBox, totalWidth)
        \o <<SplitLineFrom(columns, 1, start, "")>>
        \o <<Repeat(" ", start) \o LabelsRow(columns)>>
        \o <<ConnectorLineFrom(columns, 1, start, 0, "")>>
        \o [row \in 1..maxHeight |-> Repeat(" ", start) \o ColumnsRow(columns, row)]

\* The label of branch column i (1-based) of an action with n connections.
BranchLabel(action, conn, i, n) ==
    IF action.type = "AB_TEST_BRANCH"
    THEN IF Truthy(conn.branchName) THEN conn.branchName
         ELSE ToString(RoundDiv(100, n)) \o "%"
    ELSE IF Truthy(conn.branchName) THEN conn.branchName
         ELSE "Branch " \o ToString(i)

\* What a linear action returns once its successor has been rendered.
LinearLayout(boxLines, nextLines) ==
    LET box          == renderBox(boxLines)
        boxWidth     == Len(box[1])
        connectorCol == Floor2(boxWidth)
    IN  box
        \o <<Repeat(" ", connectorCol) \o VLine, Repeat(" ", connectorCol) \o ArrowDown>>
        \o centerLines(nextLines, boxWidth)

\* --------------------------------------------------------------- the walk
MAX_DEPTH == 50

\* An absent connection / defaultBranch object.
NoConn == [absent |-> TRUE]

\* conn?.nextActionId
NextOf(conn) == IF conn = NoConn THEN Undef ELSE conn.nextActionId

isBranch(action) == action.type \in {"LIST_BRANCH", "STATIC_BRANCH", "AB_TEST_BRANCH"}

\* The connections renderBranch walks for a v4 action: one per listBranch,
\* then the default branch when the action has one.
Normalized(action) ==
    [i \in 1..Len(action.listBranches) |->
        [nextActionId |-> Coalesce(NextOf(action.listBranches[i].connection), ""),
         branchName   |-> action.listBranches[i].branchName]]
    \o (IF action.defaultBranch # NoConn
        THEN <<[nextActionId |-> action.defaultBranch.nextActionId,
                branchName   |-> Coalesce(action.defaultBranchName, "Default")]>>
        ELSE <<>>)

\* The connections of the branch an action is rendered as; empty when the
\* action is rendered as a single connection or a terminal box.
BranchConnections(action) ==
    IF isBranch(action) /\ Len(action.listBranches) > 0 THEN Normalized(action)
    ELSE IF isBranch(action) /\ Len(action.connections) > 0 THEN action.connections
    ELSE <<>>

RECURSIVE ActionMapFrom(_, _)
\* new Map(actions.map(a => [a.actionId, a])): a later entry replaces an
\* earlier one with the same id.
ActionMapFrom(actions, i) ==
    IF i = 0 THEN <<>>
    ELSE LET rest == ActionMapFrom(actions, i - 1)
             a    == actions[i]
         IN  (a.actionId :> a) @@ rest

NoContext == [actionMap |-> <<>>, visited |-> <<>>, stepCounter |-> 0]

\* The RenderContext renderWorkflow builds for one call.
NewContext(f) ==
    [actionMap |-> ActionMapFrom(f.actions, Len(f.actions)),
     visited |-> <<>>, stepCounter |-> 0]

\* The ceiling checked one level too late.
TooDeepOffByOne(depth) == depth > MAX_DEPTH + 1

\* depth > MAX_DEPTH
TooDeep(depth) == depth > MAX_DEPTH

\* ctx.actionMap.get(actionId) is defined
IsKnown(c, actionId) == actionId \in DOMAIN c.actionMap

\* The convergence check left out.
IsVisitedForgotten(c, actionId) == FALSE

\* ctx.visited.has(actionId)
IsVisited(c, actionId) == actionId \in DOMAIN c.visited

DepthLimitLines == <<"[... max depth reached]">>

UnknownLines(actionId) == <<"[unknown action: " \o actionId \o "]">>

BackRefLines(stepNum) == <<"[" \o ArrowRight \o " step " \o ToString(stepNum) \o "]">>

EndLines == <<"(end)">>

VARIABLES
    flow,        \* the WorkflowFlow the caller holds
    pc,          \* "idle" | "call" | "loop" | "ret" | "done"
    ctx,         \* RenderContext of the call in progress
    stack,       \* renderAction activations waiting for a callee, outermost first
    call,        \* arguments of the renderAction call being entered
    result,      \* lines returned by the renderAction call that just returned
    lines,       \* renderWorkflow's lines
    output,      \* the string the last completed renderWorkflow returned
    prevOutput,  \* the string the call before that returned
    renders,     \* number of completed renderWorkflow calls
    workflows,     \* WorkflowCache.workflows: NotLoaded or the memoized flows
    pipelineCache, \* PipelineCache.cache: per key NotLoaded or the memoized pipelines
    callers,       \* per caller its cache call in progress and what its last call returned
    listFetches,   \* per category the list GETs issued so far
    okFetches,     \* per category the list GETs answered so far
    batchReads,    \* batch-read POSTs issued so far
    requests,      \* cache requests begun so far
    concurrent,    \* some request began while another was in progress
    failedReads, \* batch-read POSTs that failed so far
    lastAfter, \* the continuation token of the list response the memoized workflows came from
    directFetches, \* single-flow GETs issued so far
    starter,  \* the caller that began the latest request
    scored,      \* the latest fuzzyScore call: its arguments and what it returned
    prevScored,  \* the fuzzyScore call before that
    matches,     \* the latest fuzzyMatch call: its arguments and what it returned
    fuzzyCalls,  \* fuzzyScore and fuzzyMatch calls made so far
    search,      \* the search_crm call: its arguments, where it stands, what it returned
    posted,      \* the filters of the searches sent upstream so far, oldest first
    searchCalls, \* search_crm calls made so far
    request,     \* the HubSpotClient.request call: where it stands, its attempts, its outcome
    toolLog,     \* the tool calls made so far, each with the upstream requests it issued
    handed       \* the get_workflow call: where it stands, the flow it handed to the renderer

renderVars == <<flow, pc, ctx, stack, call, result, lines, output, prevOutput, renders>>

cacheVars ==
    <<workflows, pipelineCache, callers, listFetches, okFetches, batchReads, requests, concurrent,
      failedReads,
      lastAfter,
      directFetches,
      starter>>

fuzzyVars == <<scored, prevScored, matches, fuzzyCalls>>

searchVars == <<search, posted, searchCalls>>

clientVars == <<request>>

readVars == <<toolLog>>

handVars == <<handed>>

\* The variables of the tools and of the client.
toolVars == <<searchVars, clientVars, readVars, handVars>>

vars == <<renderVars, cacheVars, fuzzyVars, toolVars>>

NoCall == [actionId |-> Undef, depth |-> 0]

\* No call of the function was made yet.
NotCalled == [called |-> FALSE]

\* HubSpotClient.request was not called.
NoRequest ==
    [pc |-> "idle", method |-> "GET", path |-> "", attempts |-> <<>>,
     waits |-> <<>>, outcome |-> [kind |-> "none", status |-> 0]]

\* get_workflow was not called.
NotHanded ==
    [pc |-> "idle", via |-> "none", listed |-> [absent |-> TRUE],
     detail |-> [absent |-> TRUE], workflow |-> [kind |-> "null"],
     flow |-> [absent |-> TRUE], header |-> <<>>]

\* No search_crm call is in progress and none has returned.
NoSearch ==
    [pc |-> "idle", objectType |-> Undef, filters |-> <<>>, pipeline_name |-> Undef,
     stage_name |-> Undef, resolved |-> [resolved |-> FALSE], allFilters |-> <<>>,
     response |-> [kind |-> "none"]]

Top == stack[Len(stack)]

Pop == SubSeq(stack, 1, Len(stack) - 1)

ReplaceTop(frame) == [stack EXCEPT ![Len(stack)] = frame]


\* ------------------------------------------------------------ input flows
MaxRenders  == 2    \* renderWorkflow calls made on one flow
ChainOver   == 2    \* how far the longest chain runs past MAX_DEPTH
MaxRequests == 3    \* cache requests made in one run
PartialUpTo == 2    \* chunks up to this size are answered with any part of their details

\* The callers of the caches: two, whose calls may overlap.
Callers == {1, 2}

Action(id, typeId, type, fields, connection, connections, listBranches, defaultBranch, defaultBranchName) ==
    [actionId |-> id, actionTypeId |-> typeId, type |-> type, fields |-> fields,
     connection |-> connection, connections |-> connections,
     listBranches |-> listBranches, defaultBranch |-> defaultBranch,
     defaultBranchName |-> defaultBranchName]

Conn(target) == [nextActionId |-> target]

BranchConn(target, name) == [nextActionId |-> target, branchName |-> name]

\* A single-connection action; connection is NoConn for a terminal one.
Single(id, typeId, fields, connection) ==
    Action(id, typeId, "SINGLE_CONNECTION", fields, connection, <<>>, <<>>, NoConn, Undef)

\* A branch container in the connections shape.
Branch(id, type, connections) ==
    Action(id, Undef, type, NoFields, NoConn, connections, <<>>, NoConn, Undef)

\* A branch container in the v4 shape (listBranches and defaultBranch).
ListBranch(id, type, listBranches, defaultBranch, defaultBranchName) ==
    Action(id, Undef, type, NoFields, NoConn, <<>>, listBranches, defaultBranch,
           defaultBranchName)

Flow(name, isEnabled, triggerType, ec, start, actions) ==
    [id |-> "1", name |-> name, isEnabled |-> isEnabled, triggerType |-> triggerType,
     enrollmentCriteria |-> ec, startActionId |-> start, actions |-> actions]

PlainFlow(start, actions) == Flow("W", TRUE, Undef, NoCriteria, start, actions)

ActionId(i) == "a" \o ToString(i)

\* Small graphs: every action is terminal, linear or a two-way branch, with
\* targets among the actions, an id that is no action ("zz") and, for a
\* branch column, no target at all.
GraphIds     == {ActionId(1), ActionId(2), ActionId(3)}
UnknownId    == "zz"
GraphTargets == GraphIds \cup {UnknownId}

GraphShapesOver(id, columnTargets) ==
    {Single(id, "0-5", NoFields, c) : c \in {NoConn} \cup {Conn(t) : t \in GraphTargets}}
    \cup
    {Branch(id, "STATIC_BRANCH", <<BranchConn(t1, Undef), BranchConn(t2, Undef)>>) :
        t1 \in columnTargets, t2 \in columnTargets}

\* Branch columns lead to an action of the graph or nowhere; columns with an
\* unknown target are among the branch containers below.
GraphShapes(id) == GraphShapesOver(id, GraphIds \cup {Undef})

\* The third action branches back to the start or ends; it is the second
\* action's mirror image in every other respect.
LastShapes(id) == GraphShapesOver(id, {ActionId(1), Undef})

GraphFlows ==
    {PlainFlow(ActionId(1), <<s1, s2, s3>>) :
        s1 \in GraphShapes(ActionId(1)), s2 \in GraphShapes(ActionId(2)),
        s3 \in LastShapes(ActionId(3))}

\* Branch containers in every shape the renderer distinguishes: the type,
\* the connections list, the v4 listBranches and defaultBranch, and the
\* single connection that is used when the action is not rendered as a branch.
FormTargets == {Undef, ActionId(2), UnknownId}

FormConnections(named) ==
    LET c(t, k) == BranchConn(t, IF named THEN "N" \o ToString(k) ELSE Undef)
    IN  {<<>>} \cup {<<c(t, 1)>> : t \in FormTargets}
        \cup {<<c(t1, 1), c(t2, 2)>> : t1 \in FormTargets, t2 \in FormTargets}

FormListBranches(named) ==
    LET lb(c, k) == [branchName |-> IF named THEN "L" \o ToString(k) ELSE Undef,
                     connection |-> c]
        cs == {NoConn, Conn(ActionId(2)), Conn(UnknownId)}
    IN  {<<>>} \cup {<<lb(c, 1)>> : c \in cs}
        \cup {<<lb(c1, 1), lb(c2, 2)>> : c1 \in cs, c2 \in cs}

FormFlowsOver(named, connectionsSet, listBranchesSet) ==
    {PlainFlow(ActionId(1),
        <<Action(ActionId(1), Undef, type, NoFields, connection, connections,
                 listBranches, defaultBranch, IF named THEN "Else" ELSE Undef),
          Single(ActionId(2), "0-5", NoFields, NoConn)>>) :
        type \in {"LIST_BRANCH", "AB_TEST_BRANCH", "SINGLE_CONNECTION"},
        connection \in {NoConn, Conn(ActionId(2))},
        connections \in connectionsSet,
        listBranches \in listBranchesSet,
        defaultBranch \in {NoConn, Conn(""), Conn(ActionId(2))}}

\* Every connections list where there are no listBranches, and every
\* listBranches list over an empty and a non-empty connections list.
FormFlowsNamed(named) ==
    FormFlowsOver(named, FormConnections(named), {<<>>})
    \cup
    FormFlowsOver(named, {<<>>, <<BranchConn(ActionId(2), Undef)>>}, FormListBranches(named))

FormFlows == FormFlowsNamed(TRUE) \cup FormFlowsNamed(FALSE)

\* Long chains a1 -> a2 -> ... -> aP of linear actions followed by a tail
\* action a(P+1) at depth P, whose targets are a1 (a cycle), an unknown id,
\* or one of two further terminal actions.
ChainPrefixes == (MAX_DEPTH - 1)..(MAX_DEPTH + ChainOver)

ExtraIds == {"e1", "e2"}

TailTargets == {ActionId(1), UnknownId} \cup ExtraIds

TailShapes(id) ==
    {Single(id, "0-5", NoFields, c) : c \in {NoConn} \cup {Conn(t) : t \in TailTargets}}
    \cup
    {Branch(id, "STATIC_BRANCH", <<BranchConn(t1, Undef), BranchConn(t2, Undef)>>) :
        t1 \in TailTargets \cup {Undef}, t2 \in {"e2", Undef}}

ChainActions(p, tail) ==
    [i \in 1..p |-> Single(ActionId(i), "0-5", NoFields, Conn(ActionId(i + 1)))]
    \o <<tail, Single("e1", "0-5", NoFields, NoConn), Single("e2", "0-5", NoFields, NoConn)>>

ChainFlows ==
    UNION {{PlainFlow(ActionId(1), ChainActions(p, tail)) :
               tail \in TailShapes(ActionId(p + 1))} : p \in ChainPrefixes}

\* The end-to-end scenario: a delay of 2 DAYS, then a two-way branch whose
\* Yes column leads to a terminal send-email action and whose No column has
\* no target; in every field and branch shape the renderer accepts for it.
DelayFields ==
    {("delta" :> VNum(2)) @@ ("time_unit" :> VStr("DAYS")),
     ("delta" :> VStr("2")) @@ ("time_unit" :> VStr("DAYS")),
     ("delta" :> VObj([staticValue |-> VStr("2")]))
        @@ ("time_unit" :> VObj([staticValue |-> VStr("DAYS")])),
     ("delay.amount" :> VNum(2)) @@ ("delay.unit" :> VStr("DAYS"))}

EmailIds == {"E1", "4711"}

EmailFields(id) ==
    {("emailId" :> VStr(id)), ("email" :> VStr(id)), ("content_id" :> VStr(id)),
     ("content_id" :> VObj([staticValue |-> VStr(id)]))}

YesNoBranches(id, yes) ==
    {Branch(id, "STATIC_BRANCH", <<BranchConn(yes, "Yes"), BranchConn(Undef, "No")>>),
     Branch(id, "LIST_BRANCH", <<BranchConn(yes, "Yes"), BranchConn("", "No")>>),
     ListBranch(id, "LIST_BRANCH",
                <<[branchName |-> "Yes", connection |-> Conn(yes)],
                  [branchName |-> "No", connection |-> NoConn]>>, NoConn, Undef),
     ListBranch(id, "LIST_BRANCH",
                <<[branchName |-> "Yes", connection |-> Conn(yes)]>>, Conn(""), "No")}

ScenarioFlows ==
    {PlainFlow("d", <<Single("d", delayType, df, Conn("b")), br,
                      Single("m", emailType, ef, NoConn)>>) :
        delayType \in {"0-1", "DELAY"}, df \in DelayFields,
        br \in YesNoBranches("b", "m"),
        emailType \in {"0-3", "SEND_EMAIL"},
        ef \in UNION {EmailFields(id) : id \in EmailIds}}

\* Flows with nothing to walk, a start id that is no action, or two actions
\* with one id; under every kind of header.
Criteria ==
    {NoCriteria,
     [type |-> Undef, shouldReEnroll |-> FALSE, eventFilterBranches |-> <<>>,
      listMembershipFilterBranches |-> <<>>, listFilterBranch |-> <<>>],
     [type |-> "MANUAL_ENROLL", shouldReEnroll |-> TRUE, eventFilterBranches |-> <<>>,
      listMembershipFilterBranches |-> <<>>, listFilterBranch |-> <<>>],
     [type |-> "EVENT_BASED", shouldReEnroll |-> TRUE,
      eventFilterBranches |-> <<[eventTypeId |-> "4-1639801", operator |-> "HAS_COMPLETED"],
                                [eventTypeId |-> "9-1", operator |-> Undef]>>,
      listMembershipFilterBranches |->
          <<[filters |-> <<[filterType |-> "IN_LIST", listId |-> "77"],
                           [filterType |-> "NOT_IN_LIST", listId |-> "78"]>>]>>,
      listFilterBranch |-> <<>>],
     [type |-> "EVENT_BASED", shouldReEnroll |-> FALSE, eventFilterBranches |-> <<>>,
      listMembershipFilterBranches |-> <<>>, listFilterBranch |-> <<>>],
     [type |-> "LIST_BASED", shouldReEnroll |-> FALSE, eventFilterBranches |-> <<>>,
      listMembershipFilterBranches |-> <<>>,
      listFilterBranch |->
          <<[filters |-> <<[filterType |-> "PROPERTY", property |-> "lifecyclestage",
                            operator |-> "IS_EQUAL_TO"],
                           [filterType |-> "PROPERTY", property |-> "email",
                            operator |-> Undef]>>]>>],
     [type |-> "LIST_BASED", shouldReEnroll |-> TRUE, eventFilterBranches |-> <<>>,
      listMembershipFilterBranches |-> <<>>, listFilterBranch |-> <<>>]}

HeaderFlowActions ==
    {<<>>,
     <<Single(ActionId(1), "0-5", NoFields, NoConn)>>,
     <<Single(ActionId(1), "0-5", NoFields, Conn(ActionId(2))),
       Single(ActionId(1), "CUSTOM_TAG", NoFields, Conn(ActionId(1))),
       Single(ActionId(2), "0-3", NoFields, Conn(ActionId(1)))>>}

HeaderFlows ==
    {Flow(name, isEnabled, triggerType, ec, start, actions) :
        name \in {"W", "A workflow with quite a long display name"},
        isEnabled \in BOOLEAN, triggerType \in {Undef, "", "CONTACT_LIST"},
        ec \in Criteria, start \in {Undef, "", ActionId(1), UnknownId},
        actions \in HeaderFlowActions}

\* Counts of milliseconds a delay action carries without a unit: one second,
\* a minute and a half, one minute, one hour, an hour and a half, one day, a
\* day and a half, two days.
MillisCounts == {1000, 90000, 60000, 3600000, 5400000, 86400000, 129600000, 172800000}

\* The count of a delay as a number or as text, under either field name.
MillisFields(ms) ==
    {("delayMillis" :> VNum(ms)), ("delay.amount" :> VStr(ToString(ms)))}

\* Flows of one delay action that carries only a count of milliseconds.
MillisFlows ==
    {PlainFlow("d", <<Single("d", "0-1", df, NoConn)>>) :
        df \in UNION {MillisFields(ms) : ms \in MillisCounts}}

Flows ==
    GraphFlows \cup FormFlows \cup ChainFlows \cup ScenarioFlows \cup HeaderFlows
    \cup MillisFlows

\* ======================================================================
\* The entity caches: WorkflowCache and PipelineCache
\* ======================================================================
\* Each caller is one asynchronous call in progress; a call is suspended at
\* its awaits, where the calls of other callers may run.

\* workflows === null, and an entry cache.has() does not find.
NotLoaded == [loaded |-> FALSE]

Loaded(items) == [loaded |-> TRUE, items |-> items]

\* The collection counts as memoized only when it has entries.
PopulatedNonEmpty(entry) == entry.loaded /\ entry.items # <<>>

\* this.workflows !== null; this.cache.has(key)
Populated(entry) == entry.loaded

NoResult == [kind |-> "none"]

Returned(items) == [kind |-> "value", items |-> items]

Raised == [kind |-> "error"]

\* What getById returns: a workflow, or null.
Found(item) == [kind |-> "item", item |-> item]

NotFound == [kind |-> "null"]

IdleCaller ==
    [op |-> "none", pc |-> "idle", objectType |-> Undef, key |-> Undef, flowId |-> Undef,
     flows |-> <<>>, after |-> Undef, i |-> 0, details |-> {}, ret |-> NoResult]

WorkflowsCategory == "workflows"

ObjectTypes == {"deals", "Deals"}

\* toLowerCase() of each object type, computed once.
\* The object types that search_crm resolves pipelines for.
PipelineTypes == {"deals", "tickets"}

LowerCased == [objectType \in ObjectTypes \cup PipelineTypes |-> ToLowerCase(objectType)]

\* The category of an object type: its name, compared case-insensitively.
CategoryOfType(objectType) == LowerCased[objectType]

\* const key = objectType.toLowerCase()
PipelineKey(objectType) == LowerCased[objectType]

PipelineKeys == {PipelineKey(t) : t \in ObjectTypes \cup PipelineTypes}

Categories == {WorkflowsCategory} \cup {CategoryOfType(t) : t \in ObjectTypes \cup PipelineTypes}

\* The flow ids getById is asked for; the flow "w9" is in no list response.
FlowIds == {"w1", "w9"}

\* this.workflows.find((w) => w.id === flowId), when this.workflows is set
Cached(flowId) ==
    IF ~workflows.loaded THEN NotFound
    ELSE LET at == {k \in 1..Len(workflows.items) : workflows.items[k].id = flowId}
         IN  IF at = {} THEN NotFound
             ELSE Found(workflows.items[CHOOSE k \in at : \A j \in at : k <= j])

\* A flow of the list response, with or without its actions.
ListedFlow(id, hasActions) == [id |-> id, hasActions |-> hasActions]

ChunkSize == 100

\* A list of summaries that takes two batch reads: a full chunk and one more
\* flow, with the ids "1", "2", ...
LongFlows == [k \in 1..(ChunkSize + 1) |-> ListedFlow(ToString(k), FALSE)]

\* What the list endpoint may answer: flows (the field may be missing).
FlowLists ==
    {<<>>,
     <<ListedFlow("w1", TRUE)>>,
     <<ListedFlow("w1", TRUE), ListedFlow("w2", FALSE)>>,
     LongFlows}

\* data.results.map((p) => ({ id: p.id, label: p.label, stages: ... }))
CachedPipeline(id) == [id |-> id, label |-> id, stages |-> <<>>]

\* What the pipelines endpoint may answer for an object type.
PipelineLists ==
    {<<>>, <<CachedPipeline("p1")>>}

\* A response of the list endpoint: its flows, and the continuation token
\* (paging.next.after) it carries when the upstream holds more flows.
ListAnswer(flows, after) == [flows |-> flows, after |-> after]

\* The list responses: each list as the whole of what the upstream holds, and
\* one of them as a first page.
ListAnswers ==
    {ListAnswer(flows, Undef) : flows \in FlowLists}
        \cup {ListAnswer(<<ListedFlow("w1", TRUE)>>, "page2")}

\* flows.some((f) => !f.actions || f.actions.length === 0)
needsDetail(flows) == \E k \in 1..Len(flows) : ~flows[k].hasActions

\* One memoized workflow: its id and where its actions come from.
Summary(f, details) ==
    [id |-> f.id,
     actions |-> IF f.id \in details THEN "detail"
                 ELSE IF f.hasActions THEN "list" ELSE "empty"]

\* flows.map(...) with the details that were fetched merged in by id.
Merged(flows, details) == [k \in 1..Len(flows) |-> Summary(flows[k], details)]

\* ids.slice(i, i + 100)
Chunk(flows, i) ==
    {flows[k].id : k \in {n \in 1..Len(flows) : n > i /\ n <= i + ChunkSize}}

\* What a batch read may answer for a chunk: the details of some of its ids
\* (of all or of none of them, for a chunk of more than PartialUpTo ids).
BatchAnswers(chunk) ==
    IF Cardinality(chunk) <= PartialUpTo THEN SUBSET chunk ELSE {{}, chunk}

\* ------------------------------------------------------------- the machine
\* No renderWorkflow call has been made.
RendererFresh ==
    /\ pc = "idle"
    /\ ctx = NoContext
    /\ stack = <<>>
    /\ call = NoCall
    /\ result = <<>>
    /\ lines = <<>>
    /\ output = Undef
    /\ prevOutput = Undef
    /\ renders = 0

\* No diagram is asked for.
RendererIdle == flow = PlainFlow(Undef, <<>>) /\ RendererFresh

\* The caches as constructed, no call made.
CacheIdle ==
    /\ workflows = NotLoaded
    /\ pipelineCache = [key \in PipelineKeys |-> NotLoaded]
    /\ callers = [c \in Callers |-> IdleCaller]
    /\ listFetches = [category \in Categories |-> 0]
    /\ okFetches = [category \in Categories |-> 0]
    /\ batchReads = 0
    /\ requests = 0
    /\ concurrent = FALSE
    /\ starter = 0
    /\ directFetches = 0
    /\ lastAfter = Undef
    /\ failedReads = 0

\* No search_crm call was made.
SearchIdle ==
    /\ search = NoSearch
    /\ posted = <<>>
    /\ searchCalls = 0

\* No tool was called and the client made no request.
ToolsIdle == SearchIdle /\ request = NoRequest /\ toolLog = <<>> /\ handed = NotHanded

\* No fuzzyScore and no fuzzyMatch call was made.
FuzzyIdle ==
    /\ scored = NotCalled
    /\ prevScored = NotCalled
    /\ matches = NotCalled
    /\ fuzzyCalls = 0

Init ==
    /\ flow \in Flows
    /\ CacheIdle
    /\ FuzzyIdle
    /\ ToolsIdle
    /\ pc = "idle"
    /\ ctx = NoContext
    /\ stack = <<>>
    /\ call = NoCall
    /\ result = <<>>
    /\ lines = <<>>
    /\ output = Undef
    /\ prevOutput = Undef
    /\ renders = 0

\* The test without its second half: only a missing start id counts.
NoActionsStartOnly(f) == ~Truthy(f.startActionId)

\* !flow.startActionId || flow.actions.length === 0
NoActions(f) == ~Truthy(f.startActionId) \/ Len(f.actions) = 0

CanRender == pc \in {"idle", "done"} /\ renders < MaxRenders

\* renderWorkflow on a flow with no start action or no actions: the header
\* and the placeholder.
RenderWorkflowNoActions ==
    /\ CanRender
    /\ NoActions(flow)
    /\ lines' = HeaderBlock(flow) \o NoActionsLines
    /\ output' = Join(lines', "\n")
    /\ prevOutput' = output
    /\ renders' = renders + 1
    /\ pc' = "done"
    /\ UNCHANGED <<flow, ctx, stack, call, result>>
    /\ UNCHANGED <<cacheVars, fuzzyVars, toolVars>>

\* renderWorkflow that keeps the numbering of the call before.
RenderWorkflowStartStale ==
    /\ CanRender
    /\ ~NoActions(flow)
    /\ LET header       == HeaderBlock(flow)
           headerCenter == Floor2(Len(header[1]))
       IN  lines' = header \o <<Repeat(" ", headerCenter) \o VLine,
                                Repeat(" ", headerCenter) \o ArrowDown>>
    /\ ctx' = [NewContext(flow) EXCEPT !.visited = ctx.visited,
                                       !.stepCounter = ctx.stepCounter]
    /\ call' = [actionId |-> flow.startActionId, depth |-> 0]
    /\ stack' = <<>>
    /\ prevOutput' = output
    /\ pc' = "call"
    /\ UNCHANGED <<flow, result, output, renders>>
    /\ UNCHANGED <<cacheVars, fuzzyVars, toolVars>>

\* renderWorkflow up to its call of renderAction(startActionId, ctx, 0).
RenderWorkflowStart ==
    /\ CanRender
    /\ ~NoActions(flow)
    /\ LET header       == HeaderBlock(flow)
           headerCenter == Floor2(Len(header[1]))
       IN  lines' = header \o <<Repeat(" ", headerCenter) \o VLine,
                                Repeat(" ", headerCenter) \o ArrowDown>>
    /\ ctx' = NewContext(flow)
    /\ call' = [actionId |-> flow.startActionId, depth |-> 0]
    /\ stack' = <<>>
    /\ prevOutput' = output
    /\ pc' = "call"
    /\ UNCHANGED <<flow, result, output, renders>>
    /\ UNCHANGED <<cacheVars, fuzzyVars, toolVars>>

\* renderWorkflow after renderAction returned: the body centred under the header.
RenderWorkflowFinish ==
    /\ pc = "ret"
    /\ stack = <<>>
    /\ lines' = lines \o centerLines(result, Len(lines[1]))
    /\ output' = Join(lines', "\n")
    /\ renders' = renders + 1
    /\ pc' = "done"
    /\ UNCHANGED <<flow, ctx, stack, call, result, prevOutput>>
    /\ UNCHANGED <<cacheVars, fuzzyVars, toolVars>>

Return(ls) ==
    /\ result' = ls
    /\ pc' = "ret"

\* renderAction entered deeper than MAX_DEPTH.
DepthLimit ==
    /\ pc = "call"
    /\ TooDeep(call.depth)
    /\ Return(DepthLimitLines)
    /\ UNCHANGED <<flow, ctx, stack, call, lines, output, prevOutput, renders>>
    /\ UNCHANGED <<cacheVars, fuzzyVars, toolVars>>

\* renderAction on an id that is not in the action map.
UnknownAction ==
    /\ pc = "call"
    /\ ~TooDeep(call.depth)
    /\ ~IsKnown(ctx, call.actionId)
    /\ Return(UnknownLines(call.actionId))
    /\ UNCHANGED <<flow, ctx, stack, call, lines, output, prevOutput, renders>>
    /\ UNCHANGED <<cacheVars, fuzzyVars, toolVars>>

\* renderAction on an action that already has a step number.
Revisit ==
    /\ pc = "call"
    /\ ~TooDeep(call.depth)
    /\ IsKnown(ctx, call.actionId)
    /\ IsVisited(ctx, call.actionId)
    /\ Return(BackRefLines(ctx.visited[call.actionId]))
    /\ UNCHANGED <<flow, ctx, stack, call, lines, output, prevOutput, renders>>
    /\ UNCHANGED <<cacheVars, fuzzyVars, toolVars>>

FirstVisit ==
    /\ pc = "call"
    /\ ~TooDeep(call.depth)
    /\ IsKnown(ctx, call.actionId)
    /\ ~IsVisited(ctx, call.actionId)

\* The step number taken before the counter is incremented.
NumberedPostIncrement(c, actionId) ==
    [c EXCEPT !.stepCounter = c.stepCounter + 1,
              !.visited = (actionId :> c.stepCounter) @@ c.visited]

\* ctx.stepCounter++; ctx.visited.set(actionId, stepNum)
Numbered(c, actionId) ==
    [c EXCEPT !.stepCounter = c.stepCounter + 1,
              !.visited = (actionId :> (c.stepCounter + 1)) @@ c.visited]

Frame(kind, action, stepNum, connections) ==
    [kind |-> kind, actionId |-> call.actionId, depth |-> call.depth,
     stepNum |-> stepNum, boxLines |-> BoxLines(action, stepNum),
     type |-> action.type, connections |-> connections, i |-> 1, columns |-> <<>>]

\* First visit of a branch container: number it and start on its columns.
VisitBranch ==
    /\ FirstVisit
    /\ LET action == ctx.actionMap[call.actionId]
           conns  == BranchConnections(action)
       IN  /\ Len(conns) > 0
           /\ ctx' = Numbered(ctx, call.actionId)
           /\ stack' = Append(stack, Frame("branch", action, ctx'.stepCounter, conns))
           /\ pc' = "loop"
    /\ UNCHANGED <<flow, call, result, lines, output, prevOutput, renders>>
    /\ UNCHANGED <<cacheVars, fuzzyVars, toolVars>>

\* First visit of an action with no next action: number it, return its box.
VisitTerminal ==
    /\ FirstVisit
    /\ LET action == ctx.actionMap[call.actionId]
       IN  /\ Len(BranchConnections(action)) = 0
           /\ ~Truthy(NextOf(action.connection))
           /\ ctx' = Numbered(ctx, call.actionId)
           /\ Return(renderTerminalBox(BoxLines(action, ctx'.stepCounter)))
    /\ UNCHANGED <<flow, stack, call, lines, output, prevOutput, renders>>
    /\ UNCHANGED <<cacheVars, fuzzyVars, toolVars>>

\* First visit of a linear action: number it, recurse into its successor.
VisitLinear ==
    /\ FirstVisit
    /\ LET action == ctx.actionMap[call.actionId]
       IN  /\ Len(BranchConnections(action)) = 0
           /\ Truthy(NextOf(action.connection))
           /\ ctx' = Numbered(ctx, call.actionId)
           /\ stack' = Append(stack, Frame("linear", action, ctx'.stepCounter, <<>>))
           /\ call' = [actionId |-> NextOf(action.connection), depth |-> call.depth + 1]
           /\ pc' = "call"
    /\ UNCHANGED <<flow, result, lines, output, prevOutput, renders>>
    /\ UNCHANGED <<cacheVars, fuzzyVars, toolVars>>

\* The successor of a linear action returned: the box, its connector and
\* the successor centred under it.
LinearReturn ==
    /\ pc = "ret"
    /\ stack # <<>>
    /\ Top.kind = "linear"
    /\ Return(LinearLayout(Top.boxLines, result))
    /\ stack' = Pop
    /\ UNCHANGED <<flow, ctx, call, lines, output, prevOutput, renders>>
    /\ UNCHANGED <<cacheVars, fuzzyVars, toolVars>>

InLoop ==
    /\ pc = "loop"
    /\ Top.i <= Len(Top.connections)

ColumnLabel(frame) ==
    BranchLabel(frame, frame.connections[frame.i], frame.i, Len(frame.connections))

WithColumn(frame, ls) ==
    [frame EXCEPT !.columns = Append(@, [label |-> ColumnLabel(frame), lines |-> ls]),
                  !.i = @ + 1]

\* A branch column whose connection has no next action: the "(end)" leaf.
BranchColumnEnd ==
    /\ InLoop
    /\ ~Truthy(Top.connections[Top.i].nextActionId)
    /\ stack' = ReplaceTop(WithColumn(Top, EndLines))
    /\ UNCHANGED <<flow, pc, ctx, call, result, lines, output, prevOutput, renders>>
    /\ UNCHANGED <<cacheVars, fuzzyVars, toolVars>>

\* A branch column with a next action: recurse into it.
BranchColumnRecurse ==
    /\ InLoop
    /\ Truthy(Top.connections[Top.i].nextActionId)
    /\ call' = [actionId |-> Top.connections[Top.i].nextActionId, depth |-> Top.depth + 1]
    /\ pc' = "call"
    /\ UNCHANGED <<flow, ctx, stack, result, lines, output, prevOutput, renders>>
    /\ UNCHANGED <<cacheVars, fuzzyVars, toolVars>>

\* The recursion of a branch column returned: keep its lines as the column.
BranchColumnReturn ==
    /\ pc = "ret"
    /\ stack # <<>>
    /\ Top.kind = "branch"
    /\ stack' = ReplaceTop(WithColumn(Top, result))
    /\ pc' = "loop"
    /\ UNCHANGED <<flow, ctx, call, result, lines, output, prevOutput, renders>>
    /\ UNCHANGED <<cacheVars, fuzzyVars, toolVars>>

\* Every column of a branch is rendered: lay the columns out side by side.
BranchFinish ==
    /\ pc = "loop"
    /\ Top.i > Len(Top.connections)
    /\ Return(BranchLayout(Top.boxLines, Top.columns))
    /\ stack' = Pop
    /\ UNCHANGED <<flow, ctx, call, lines, output, prevOutput, renders>>
    /\ UNCHANGED <<cacheVars, fuzzyVars, toolVars>>

Next ==
    \/ RenderWorkflowNoActions
    \/ RenderWorkflowStart
    \/ RenderWorkflowFinish
    \/ DepthLimit
    \/ UnknownAction
    \/ Revisit
    \/ VisitBranch
    \/ VisitTerminal
    \/ VisitLinear
    \/ LinearReturn
    \/ BranchColumnEnd
    \/ BranchColumnRecurse
    \/ BranchColumnReturn
    \/ BranchFinish

Spec == Init /\ [][Next]_vars

\* ---------------------------------------------------- the caches at work
Busy(c) == callers[c].pc # "idle"

CanRequest(c) == ~Busy(c) /\ requests < MaxRequests

\* A request begins: it is counted, and it is concurrent when another
\* caller's request is still in progress.
BeginRequest(c) ==
    /\ requests' = requests + 1
    /\ concurrent' = (concurrent \/ \E d \in Callers \ {c} : Busy(d))
    /\ starter' = c

Fetch(category) == listFetches' = [listFetches EXCEPT ![category] = @ + 1]

\* getAll() with the collection loaded: ensureLoaded returns at once.
GetAllLoaded(c) ==
    /\ CanRequest(c)
    /\ Populated(workflows)
    /\ BeginRequest(c)
    /\ callers' = [callers EXCEPT ![c] = [IdleCaller EXCEPT !.op = "getAll", !.pc = "loaded"]]
    /\ UNCHANGED <<workflows, pipelineCache, listFetches, okFetches, batchReads>>
    /\ UNCHANGED <<failedReads, lastAfter, directFetches>>
    /\ UNCHANGED <<renderVars, fuzzyVars, toolVars>>

\* getAll() with nothing loaded: ensureLoaded issues the list GET and waits.
GetAllFetch(c) ==
    /\ CanRequest(c)
    /\ ~Populated(workflows)
    /\ BeginRequest(c)
    /\ Fetch(WorkflowsCategory)
    /\ callers' = [callers EXCEPT ![c] = [IdleCaller EXCEPT !.op = "getAll", !.pc = "awaitList"]]
    /\ UNCHANGED <<workflows, pipelineCache, okFetches, batchReads>>
    /\ UNCHANGED <<failedReads, lastAfter, directFetches>>
    /\ UNCHANGED <<renderVars, fuzzyVars, toolVars>>

\* The list GET answered with flows that need no detail: memoize them.
ListComplete(c) ==
    /\ callers[c].pc = "awaitList"
    /\ \E answer \in ListAnswers :
          /\ ~needsDetail(answer.flows) \/ Len(answer.flows) = 0
          /\ workflows' = Loaded(Merged(answer.flows, {}))
          /\ lastAfter' = answer.after
          /\ callers' = [callers EXCEPT ![c].pc = "loaded"]
    /\ okFetches' = [okFetches EXCEPT ![WorkflowsCategory] = @ + 1]
    /\ UNCHANGED <<pipelineCache, listFetches, batchReads, requests, concurrent>>
    /\ UNCHANGED <<failedReads, directFetches, starter>>
    /\ UNCHANGED <<renderVars, fuzzyVars, toolVars>>

\* The list GET answered with summaries: post the first batch read and wait.
ListNeedsDetail(c) ==
    /\ callers[c].pc = "awaitList"
    /\ \E answer \in ListAnswers :
          /\ needsDetail(answer.flows) /\ Len(answer.flows) # 0
          /\ callers' = [callers EXCEPT ![c].pc = "awaitBatch", ![c].flows = answer.flows,
                                        ![c].after = answer.after,
                                        ![c].i = 0, ![c].details = {}]
    /\ okFetches' = [okFetches EXCEPT ![WorkflowsCategory] = @ + 1]
    /\ batchReads' = batchReads + 1
    /\ UNCHANGED <<workflows, pipelineCache, listFetches, requests, concurrent>>
    /\ UNCHANGED <<failedReads, lastAfter, directFetches, starter>>
    /\ UNCHANGED <<renderVars, fuzzyVars, toolVars>>

\* The list GET failed, and an empty collection is memoized in its place.
ListFailMemoizesEmpty(c) ==
    /\ callers[c].pc = "awaitList"
    /\ callers' = [callers EXCEPT ![c] = [IdleCaller EXCEPT !.op = "getAll", !.ret = Raised]]
    /\ workflows' = Loaded(<<>>)
    /\ UNCHANGED <<pipelineCache, listFetches, okFetches, batchReads, requests, concurrent>>
    /\ UNCHANGED <<failedReads, lastAfter, directFetches, starter>>
    /\ UNCHANGED <<renderVars, fuzzyVars, toolVars>>

\* The list GET failed: ensureLoaded and getAll raise, nothing is memoized.
ListFail(c) ==
    /\ callers[c].pc = "awaitList"
    /\ callers' = [callers EXCEPT ![c] = [IdleCaller EXCEPT !.op = "getAll", !.ret = Raised]]
    /\ UNCHANGED <<workflows, pipelineCache, listFetches, okFetches, batchReads,
                   requests, concurrent>>
    /\ UNCHANGED <<failedReads, lastAfter, directFetches, starter>>
    /\ UNCHANGED <<renderVars, fuzzyVars, toolVars>>

\* After the answer to a batch read, the flows read so far are memoized.
AfterChunkPartial(c, details) ==
    LET me   == callers[c]
        next == me.i + ChunkSize
    IN  IF next < Len(me.flows)
        THEN /\ callers' = [callers EXCEPT ![c].i = next, ![c].details = details]
             /\ batchReads' = batchReads + 1
             /\ workflows' = Loaded(Merged(SubSeq(me.flows, 1, next), details))
             /\ lastAfter' = me.after
        ELSE /\ workflows' = Loaded(Merged(me.flows, details))
             /\ lastAfter' = me.after
             /\ callers' = [callers EXCEPT ![c].pc = "loaded", ![c].flows = <<>>,
                                           ![c].after = Undef,
                                           ![c].i = 0, ![c].details = {}]
             /\ UNCHANGED batchReads

\* After the answer to a batch read: the next chunk, or the merge.
AfterChunk(c, details) ==
    LET me   == callers[c]
        next == me.i + ChunkSize
    IN  IF next < Len(me.flows)
        THEN /\ callers' = [callers EXCEPT ![c].i = next, ![c].details = details]
             /\ batchReads' = batchReads + 1
             /\ UNCHANGED <<workflows, lastAfter>>
        ELSE /\ workflows' = Loaded(Merged(me.flows, details))
             /\ lastAfter' = me.after
             /\ callers' = [callers EXCEPT ![c].pc = "loaded", ![c].flows = <<>>,
                                           ![c].after = Undef,
                                           ![c].i = 0, ![c].details = {}]
             /\ UNCHANGED batchReads

\* A batch read answered with the details it could resolve.
BatchOk(c) ==
    /\ callers[c].pc = "awaitBatch"
    /\ \E found \in BatchAnswers(Chunk(callers[c].flows, callers[c].i)) :
          AfterChunk(c, callers[c].details \cup found)
    /\ UNCHANGED <<pipelineCache, listFetches, okFetches, requests, concurrent>>
    /\ UNCHANGED <<failedReads, directFetches, starter>>
    /\ UNCHANGED <<renderVars, fuzzyVars, toolVars>>

\* A batch read failed, and the failure ends the load: getAll raises.
BatchFailAborts(c) ==
    /\ callers[c].pc = "awaitBatch"
    /\ callers' = [callers EXCEPT ![c] = [IdleCaller EXCEPT !.op = "getAll", !.ret = Raised]]
    /\ failedReads' = failedReads + 1
    /\ UNCHANGED <<workflows, batchReads>>
    /\ UNCHANGED <<pipelineCache, listFetches, okFetches, requests, concurrent>>
    /\ UNCHANGED <<lastAfter, directFetches, starter>>
    /\ UNCHANGED <<renderVars, fuzzyVars, toolVars>>

\* A batch read failed: the failure is swallowed.
BatchFail(c) ==
    /\ callers[c].pc = "awaitBatch"
    /\ AfterChunk(c, callers[c].details)
    /\ failedReads' = failedReads + 1
    /\ UNCHANGED <<pipelineCache, listFetches, okFetches, requests, concurrent>>
    /\ UNCHANGED <<directFetches, starter>>
    /\ UNCHANGED <<renderVars, fuzzyVars, toolVars>>

\* getAll() after ensureLoaded: return this.workflows
GetAllReturn(c) ==
    /\ callers[c].pc = "loaded"
    /\ callers' = [callers EXCEPT ![c].pc = "idle", ![c].ret = Returned(workflows.items)]
    /\ UNCHANGED <<workflows, pipelineCache, listFetches, okFetches, batchReads,
                   requests, concurrent>>
    /\ UNCHANGED <<failedReads, lastAfter, directFetches, starter>>
    /\ UNCHANGED <<renderVars, fuzzyVars, toolVars>>

\* getPipelines(objectType) with the key in the cache: answered at once.
GetPipelinesCached(c) ==
    /\ CanRequest(c)
    /\ \E objectType \in ObjectTypes :
          LET key == PipelineKey(objectType)
          IN  /\ Populated(pipelineCache[key])
              /\ callers' = [callers EXCEPT ![c] =
                    [IdleCaller EXCEPT !.op = "getPipelines",
                                       !.objectType = objectType, !.key = key,
                                       !.ret = Returned(pipelineCache[key].items)]]
    /\ BeginRequest(c)
    /\ UNCHANGED <<workflows, pipelineCache, listFetches, okFetches, batchReads>>
    /\ UNCHANGED <<failedReads, lastAfter, directFetches>>
    /\ UNCHANGED <<renderVars, fuzzyVars, toolVars>>

\* getPipelines(objectType) with the key not in the cache: GET and wait.
GetPipelinesFetch(c) ==
    /\ CanRequest(c)
    /\ \E objectType \in ObjectTypes :
          LET key == PipelineKey(objectType)
          IN  /\ ~Populated(pipelineCache[key])
              /\ Fetch(CategoryOfType(objectType))
              /\ callers' = [callers EXCEPT ![c] =
                    [IdleCaller EXCEPT !.op = "getPipelines",
                                       !.objectType = objectType, !.key = key,
                                       !.pc = "awaitPipelines"]]
    /\ BeginRequest(c)
    /\ UNCHANGED <<workflows, pipelineCache, okFetches, batchReads>>
    /\ UNCHANGED <<failedReads, lastAfter, directFetches>>
    /\ UNCHANGED <<renderVars, fuzzyVars, toolVars>>

\* The pipelines GET answered: cache.set(key, ...) and return cache.get(key).
PipelinesOk(c) ==
    /\ callers[c].pc = "awaitPipelines"
    /\ \E results \in PipelineLists :
          /\ pipelineCache' = [pipelineCache EXCEPT ![callers[c].key] = Loaded(results)]
          /\ callers' = [callers EXCEPT ![c].pc = "idle", ![c].ret = Returned(results)]
    /\ okFetches' = [okFetches EXCEPT ![CategoryOfType(callers[c].objectType)] = @ + 1]
    /\ UNCHANGED <<workflows, listFetches, batchReads, requests, concurrent>>
    /\ UNCHANGED <<failedReads, lastAfter, directFetches, starter>>
    /\ UNCHANGED <<renderVars, fuzzyVars, toolVars>>

\* The pipelines GET failed: getPipelines raises, nothing is cached.
PipelinesFail(c) ==
    /\ callers[c].pc = "awaitPipelines"
    /\ callers' = [callers EXCEPT ![c].pc = "idle", ![c].ret = Raised]
    /\ UNCHANGED <<workflows, pipelineCache, listFetches, okFetches, batchReads,
                   requests, concurrent>>
    /\ UNCHANGED <<failedReads, lastAfter, directFetches, starter>>
    /\ UNCHANGED <<renderVars, fuzzyVars, toolVars>>

\* getById(flowId) with the flow in the loaded collection: answered from it.
GetByIdCached(c) ==
    /\ CanRequest(c)
    /\ \E flowId \in FlowIds :
          LET cached == Cached(flowId)
          IN  /\ cached # NotFound
              /\ callers' = [callers EXCEPT ![c] =
                    [IdleCaller EXCEPT !.op = "getById", !.flowId = flowId,
                                       !.ret = cached]]
    /\ BeginRequest(c)
    /\ UNCHANGED <<workflows, pipelineCache, listFetches, okFetches, batchReads>>
    /\ UNCHANGED <<failedReads, lastAfter, directFetches>>
    /\ UNCHANGED <<renderVars, fuzzyVars, toolVars>>

\* getById(flowId) with nothing loaded, or the flow not in the collection:
\* GET the single flow and wait.
GetByIdFetch(c) ==
    /\ CanRequest(c)
    /\ \E flowId \in FlowIds :
          /\ Cached(flowId) = NotFound
          /\ callers' = [callers EXCEPT ![c] =
                [IdleCaller EXCEPT !.op = "getById", !.flowId = flowId,
                                   !.pc = "awaitById"]]
    /\ BeginRequest(c)
    /\ directFetches' = directFetches + 1
    /\ UNCHANGED <<workflows, pipelineCache, listFetches, okFetches, batchReads>>
    /\ UNCHANGED <<failedReads, lastAfter>>
    /\ UNCHANGED <<renderVars, fuzzyVars, toolVars>>

\* The single-flow GET answered: the flow is returned, and not memoized.
ByIdOk(c) ==
    /\ callers[c].pc = "awaitById"
    /\ callers' = [callers EXCEPT ![c].pc = "idle",
                       ![c].ret = Found([id |-> callers[c].flowId, actions |-> "detail"])]
    /\ UNCHANGED <<workflows, pipelineCache, listFetches, okFetches, batchReads,
                   requests, concurrent>>
    /\ UNCHANGED <<failedReads, lastAfter, directFetches, starter>>
    /\ UNCHANGED <<renderVars, fuzzyVars, toolVars>>

\* The single-flow GET failed, and getById raises.
ByIdFailRaises(c) ==
    /\ callers[c].pc = "awaitById"
    /\ callers' = [callers EXCEPT ![c].pc = "idle", ![c].ret = Raised]
    /\ UNCHANGED <<workflows, pipelineCache, listFetches, okFetches, batchReads,
                   requests, concurrent>>
    /\ UNCHANGED <<failedReads, lastAfter, directFetches, starter>>
    /\ UNCHANGED <<renderVars, fuzzyVars, toolVars>>

\* The single-flow GET failed: the failure is caught and null returned.
ByIdFail(c) ==
    /\ callers[c].pc = "awaitById"
    /\ callers' = [callers EXCEPT ![c].pc = "idle", ![c].ret = NotFound]
    /\ UNCHANGED <<workflows, pipelineCache, listFetches, okFetches, batchReads,
                   requests, concurrent>>
    /\ UNCHANGED <<failedReads, lastAfter, directFetches, starter>>
    /\ UNCHANGED <<renderVars, fuzzyVars, toolVars>>

CacheNext ==
    \/ \E c \in Callers : GetAllLoaded(c)
    \/ \E c \in Callers : GetAllFetch(c)
    \/ \E c \in Callers : ListComplete(c)
    \/ \E c \in Callers : ListNeedsDetail(c)
    \/ \E c \in Callers : ListFail(c)
    \/ \E c \in Callers : BatchOk(c)
    \/ \E c \in Callers : BatchFail(c)
    \/ \E c \in Callers : GetAllReturn(c)
    \/ \E c \in Callers : GetPipelinesCached(c)
    \/ \E c \in Callers : GetPipelinesFetch(c)
    \/ \E c \in Callers : PipelinesOk(c)
    \/ \E c \in Callers : PipelinesFail(c)
    \/ \E c \in Callers : GetByIdCached(c)
    \/ \E c \in Callers : GetByIdFetch(c)
    \/ \E c \in Callers : ByIdOk(c)
    \/ \E c \in Callers : ByIdFail(c)

\* The caches in use; no diagram is being rendered.
CacheInit == RendererIdle /\ CacheIdle /\ FuzzyIdle /\ ToolsIdle

CacheSpec == CacheInit /\ [][CacheNext]_vars

\* ======================================================================
\* Fuzzy name matching (levenshtein, fuzzyScore, fuzzyMatch)
\* ======================================================================

MaxFuzzyCalls == 2   \* fuzzyScore and fuzzyMatch calls made in one run

\* The strings scored: empty, one letter in both cases, two-letter strings
\* that contain it, differ in case, are one edit or two edits apart, and
\* two seven-letter strings one edit apart.
Texts == {"", "a", "A", "ab", "Ab", "ba", "aa", "aaaaaaa", "aaaaaab"}

\* A score, kept as the exact fraction num/den in lowest terms.
RECURSIVE GCD(_, _)
GCD(a, b) == IF b = 0 THEN a ELSE GCD(b, a % b)

Frac(num, den) ==
    LET g == GCD(num, den)
    IN  [num |-> num \div g, den |-> den \div g]

Plus(x, y) == Frac(x.num * y.den + y.num * x.den, x.den * y.den)

Minus(x, y) == Frac(x.num * y.den - y.num * x.den, x.den * y.den)

Times(x, y) == Frac(x.num * y.num, x.den * y.den)

Less(x, y) == x.num * y.den < y.num * x.den

\* Math.max on scores
MaxScore(x, y) == IF Less(x, y) THEN y ELSE x

Zero == Frac(0, 1)

One == Frac(1, 1)

\* score of strings that differ in case only
CaseInsensitiveScore == Frac(95, 100)

\* lowest score of a candidate that contains the query
ContainsQueryBase == Frac(6, 10)

\* the query-contains-candidate rule starting where the other substring rule starts
ContainsCandidateBaseLevelled == Frac(6, 10)

\* lowest score of a candidate that the query contains
ContainsCandidateBase == Frac(5, 10)

\* what full coverage adds to a substring score
CoverageWeight == Frac(3, 10)

\* a factor that lets an edit-distance score reach 0.6
LevenshteinCapRaised == Frac(7, 10)

\* factor applied to the edit-distance similarity
LevenshteinCap == Frac(6, 10)

\* a floor that drops every substring match of low coverage
ThresholdRaised == Frac(8, 10)

\* fuzzyMatch drops the matches that do not score above this
Threshold == Frac(3, 10)

Min3(x, y, z) == IF x <= y /\ x <= z THEN x ELSE IF y <= z THEN y ELSE z

\* levenshtein without the substitution of one character for another.
levenshteinNoSubstitution(a, b) ==
    LET la == Len(a)
        lb == Len(b)
        dp[i \in 0..la, j \in 0..lb] ==
            IF j = 0 THEN i
            ELSE IF i = 0 THEN j
            ELSE IF CharAt(a, i) = CharAt(b, j) THEN dp[i - 1, j - 1]
            ELSE 1 + Min3(dp[i - 1, j], dp[i, j - 1], dp[i, j - 1])
    IN  dp[la, lb]

\* levenshtein(a, b): the edit distance, by the full table dp.
levenshtein(a, b) ==
    LET la == Len(a)
        lb == Len(b)
        dp[i \in 0..la, j \in 0..lb] ==
            IF j = 0 THEN i
            ELSE IF i = 0 THEN j
            ELSE IF CharAt(a, i) = CharAt(b, j) THEN dp[i - 1, j - 1]
            ELSE 1 + Min3(dp[i - 1, j], dp[i, j - 1], dp[i - 1, j - 1])
    IN  dp[la, lb]

FuzzyResult(score, matchType) == [item |-> Undef, score |-> score, matchType |-> matchType]

\* fuzzyScore(query, candidate)
fuzzyScore(query, candidate) ==
    IF query = candidate THEN FuzzyResult(One, "exact")
    ELSE
        LET qLower == ToLowerCase(query)
            cLower == ToLowerCase(candidate)
        IN  IF qLower = cLower THEN FuzzyResult(CaseInsensitiveScore, "case-insensitive")
            ELSE IF Includes(cLower, qLower) THEN
                LET coverage == Frac(Len(qLower), Len(cLower))
                IN  FuzzyResult(Plus(ContainsQueryBase, Times(coverage, CoverageWeight)),
                                "substring")
            ELSE IF Includes(qLower, cLower) THEN
                LET coverage == Frac(Len(cLower), Len(qLower))
                IN  FuzzyResult(Plus(ContainsCandidateBase, Times(coverage, CoverageWeight)),
                                "substring")
            ELSE
                LET maxLen == Max(Len(qLower), Len(cLower))
                IN  IF maxLen = 0 THEN FuzzyResult(One, "exact")
                    ELSE
                        LET dist == levenshtein(qLower, cLower)
                            similarity == Minus(One, Frac(dist, maxLen))
                        IN  FuzzyResult(MaxScore(Zero, Times(similarity, LevenshteinCap)),
                                        "levenshtein")

\* Pipeline labels as a portal has them, and the names asked for.
PipelineLabels == {"Sales Pipeline", "Support Pipeline", "Legal Pipeline"}

PipelineQueries == {"sales pipeline", "Pipeline"}

\* fuzzyScore on every pair of Texts and of every asked name with every
\* pipeline label, computed once.
Scored ==
    [query \in Texts \cup PipelineQueries |->
        [candidate \in (IF query \in Texts THEN Texts ELSE PipelineLabels) |->
            fuzzyScore(query, candidate)]]

\* The items matched: records with a name; the getText passed reads the name.
Candidate(id, name) == [id |-> id, name |-> name]

\* The list of candidates with these names, the item at position k with id k.
Candidates(names) == [k \in 1..Len(names) |-> Candidate(k, names[k])]

\* The candidate lists: empty, single, in and out of score order, with names
\* that tie, that differ in case only and that repeat.
CandidateLists ==
    {Candidates(<<>>),
     Candidates(<<"ab">>),
     Candidates(<<"ba", "ab">>),
     Candidates(<<"Ab", "ab">>),
     Candidates(<<"ba", "ba">>),
     Candidates(<<"ab", "ba", "Ab">>),
     Candidates(<<"A", "a", "ab">>),
     Candidates(<<"a", "ba", "Ab", "A">>)}

\* The queries matched against them.
MatchQueries == {"a", "ab", "aa"}

\* Lists of candidates that carry pipeline labels: of different and of equal
\* length, in both orders.
LabelledLists ==
    {Candidates(<<"Sales Pipeline", "Support Pipeline">>),
     Candidates(<<"Support Pipeline", "Sales Pipeline">>),
     Candidates(<<"Support Pipeline", "Legal Pipeline", "Sales Pipeline">>),
     Candidates(<<"Sales Pipeline", "Support Pipeline", "Legal Pipeline">>)}

\* sorted with m put before the first match that does not score higher than m
InsertBeforeTies(sorted, m) ==
    LET p == 1 + Cardinality({k \in 1..Len(sorted) : Less(m.score, sorted[k].score)})
    IN  SubSeq(sorted, 1, p - 1) \o <<m>> \o SubSeq(sorted, p, Len(sorted))

\* sorted with m put before the first match that scores lower than m
InsertByScore(sorted, m) ==
    LET p == 1 + Cardinality({k \in 1..Len(sorted) : ~Less(sorted[k].score, m.score)})
    IN  SubSeq(sorted, 1, p - 1) \o <<m>> \o SubSeq(sorted, p, Len(sorted))

\* Array.prototype.sort with (a, b) => b.score - a.score: stable, best first.
RECURSIVE SortByScore(_)
SortByScore(ms) ==
    IF ms = <<>> THEN <<>>
    ELSE InsertByScore(SortByScore(SubSeq(ms, 1, Len(ms) - 1)), ms[Len(ms)])

\* getText(item) for the two getters the callers pass, (w) => w.name and
\* (p) => p.label, each told by the property it reads.
TextOf(getText, item) == IF getText = "label" THEN item.label ELSE item.name

\* fuzzyMatch(query, candidates, getText): map, filter, sort.
fuzzyMatch(query, candidates, getText) ==
    LET mapped == [k \in 1..Len(candidates) |->
                      [Scored[query][TextOf(getText, candidates[k])]
                          EXCEPT !.item = candidates[k]]]
        kept == SelectSeq(mapped, LAMBDA m : Less(Threshold, m.score))
    IN  SortByScore(kept)

CanCallFuzzy == fuzzyCalls < MaxFuzzyCalls

\* One fuzzyScore call.
FuzzyScoreCall(query, candidate) ==
    /\ CanCallFuzzy
    /\ prevScored' = scored
    /\ scored' = [called |-> TRUE, query |-> query, candidate |-> candidate,
                  result |-> Scored[query][candidate]]
    /\ fuzzyCalls' = fuzzyCalls + 1
    /\ UNCHANGED matches
    /\ UNCHANGED <<renderVars, cacheVars, toolVars>>

\* One fuzzyMatch call.
FuzzyMatchCall(query, candidates) ==
    /\ CanCallFuzzy
    /\ matches' = [called |-> TRUE, query |-> query, candidates |-> candidates,
                   result |-> fuzzyMatch(query, candidates, "name")]
    /\ fuzzyCalls' = fuzzyCalls + 1
    /\ UNCHANGED <<scored, prevScored>>
    /\ UNCHANGED <<renderVars, cacheVars, toolVars>>

FuzzyNext ==
    \/ \E query \in Texts, candidate \in Texts : FuzzyScoreCall(query, candidate)
    \/ \E query \in MatchQueries, candidates \in CandidateLists : FuzzyMatchCall(query, candidates)
    \/ \E query \in PipelineQueries, candidates \in LabelledLists :
           FuzzyMatchCall(query, candidates)

\* The matcher in use; no diagram is rendered and no cache is asked.
FuzzyInit == RendererIdle /\ CacheIdle /\ FuzzyIdle /\ ToolsIdle

FuzzySpec == FuzzyInit /\ [][FuzzyNext]_vars

\* ======================================================================
\* search_crm and PipelineCache.resolvePipeline
\* ======================================================================

MaxSearches == 2   \* search_crm calls made in one run

\* a floor that lets a match of confidence 0.65 through
ConfidenceFloorLowered == Frac(6, 10)

\* a match below this confidence is not acted on
ConfidenceFloor == Frac(7, 10)

\* at most this many alternatives are reported
MaxAlternatives == 5

Stage(id, text) == [id |-> id, label |-> text, displayOrder |-> 0]

Pipeline(id, text, stages) == [id |-> id, label |-> text, stages |-> stages]

\* What the pipelines endpoint may answer for deals or tickets: nothing; one
\* pipeline whose stages match a name well or not at all; two pipelines and
\* two stages that match a name equally and weakly; one pipeline with one
\* weakly matching stage; six pipelines that all match weakly.
PortalPipelines ==
    {<<>>,
     <<Pipeline("p1", "ab", <<Stage("s1", "ab"), Stage("s2", "ba")>>)>>,
     <<Pipeline("p1", "a", <<Stage("s1", "a"), Stage("s2", "A")>>), Pipeline("p2", "A", <<>>)>>,
     <<Pipeline("p1", "Ab", <<Stage("s1", "a")>>)>>,
     <<Pipeline("p1", "a", <<>>), Pipeline("p2", "A", <<>>), Pipeline("p3", "a", <<>>),
       Pipeline("p4", "A", <<>>), Pipeline("p5", "a", <<>>), Pipeline("p6", "A", <<>>)>>}

\* The arguments of search_crm.
SearchTypes == {"deals", "tickets", "contacts"}

PipelineNames == {Undef, "ab", "a"}

StageNames == {Undef, "ab", "aa"}

UserFilter == [propertyName |-> "amount", operator |-> "GT", value |-> "1000"]

FilterLists == {<<>>, <<UserFilter>>}

\* resolvePipeline returned null.
NotResolved == [resolved |-> FALSE]

\* No stage was asked for or none matched: stageId, stageLabel and
\* stageConfidence are not set.
NoStage == [found |-> FALSE]

\* result.alternatives is not set.
NoAlternatives == [given |-> FALSE]

\* matches.slice(0, 5).map((m) => ({ label, id, score }))
Alternatives(found) ==
    [given |-> TRUE,
     items |-> [k \in 1..(IF Len(found) < MaxAlternatives THEN Len(found) ELSE MaxAlternatives) |->
                   [label |-> found[k].item.label, id |-> found[k].item.id,
                    score |-> found[k].score]]]

\* The result of resolvePipeline once the stage matches are known: stageId,
\* stageLabel and stageConfidence are set from the best stage match, and the
\* alternatives are replaced when that match is weak and not the only one.
ResolvedWith(best, ofPipelines, stageMatches) ==
    [resolved |-> TRUE,
     pipelineId |-> best.item.id,
     pipelineLabel |-> best.item.label,
     confidence |-> best.score,
     stage |-> IF Len(stageMatches) > 0
               THEN [found |-> TRUE, stageId |-> stageMatches[1].item.id,
                     stageLabel |-> stageMatches[1].item.label,
                     stageConfidence |-> stageMatches[1].score]
               ELSE NoStage,
     alternatives |->
         IF Len(stageMatches) > 1 /\ Less(stageMatches[1].score, ConfidenceFloor)
         THEN Alternatives(stageMatches)
         ELSE ofPipelines]

\* resolvePipeline from the pipeline matches on.
ResolvedFrom(pipelineMatches, stageName) ==
    IF Len(pipelineMatches) = 0 THEN NotResolved
    ELSE ResolvedWith(pipelineMatches[1],
                      IF Less(pipelineMatches[1].score, ConfidenceFloor)
                         /\ Len(pipelineMatches) > 1
                      THEN Alternatives(pipelineMatches)
                      ELSE NoAlternatives,
                      IF Truthy(stageName)
                      THEN fuzzyMatch(stageName, pipelineMatches[1].item.stages, "label")
                      ELSE <<>>)

\* resolvePipeline, from the pipelines that getPipelines returned.
resolvePipeline(pipelines, pipelineName, stageName) ==
    ResolvedFrom(fuzzyMatch(pipelineName, pipelines, "label"), stageName)

Equals(propertyName, value) == [propertyName |-> propertyName, operator |-> "EQ", value |-> value]

stageProperty(objectType) == IF objectType = "deals" THEN "dealstage" ELSE "hs_pipeline_stage"

SearchError(error) == [kind |-> "error", error |-> error]

SearchWarning(warning, candidates) ==
    [kind |-> "warning", warning |-> warning, candidates |-> candidates]

\* formatError(e)
SearchFailed == [kind |-> "failed"]

\* formatResult(data)
SearchResult == [kind |-> "result"]

\* A search sent upstream: its filters and the resolution they came from.
Posted(s) == [filters |-> s.allFilters, resolved |-> s.resolved]

\* search_crm returns without a search.
SearchReturns(s, response) ==
    /\ search' = [s EXCEPT !.pc = "idle", !.response = response]
    /\ UNCHANGED posted

\* search_crm builds the body and posts the search.
PostSearch(s) ==
    /\ search' = [s EXCEPT !.pc = "awaitSearch"]
    /\ posted' = Append(posted, Posted(s))

\* search_crm from the return of resolvePipeline on; r is the call with the
\* resolution recorded.
Resolved(r, resolved) ==
    IF ~resolved.resolved THEN SearchReturns(r, SearchError("NO_PIPELINE_MATCH"))
    ELSE IF Less(resolved.confidence, ConfidenceFloor) THEN
        SearchReturns(r, SearchWarning("AMBIGUOUS_PIPELINE_MATCH", resolved.alternatives))
    ELSE IF resolved.stage.found /\ Truthy(resolved.stage.stageId) THEN
        IF Less(resolved.stage.stageConfidence, ConfidenceFloor) THEN
            SearchReturns([r EXCEPT !.allFilters =
                              Append(@, Equals("pipeline", resolved.pipelineId))],
                          SearchWarning("AMBIGUOUS_STAGE_MATCH", resolved.alternatives))
        ELSE
            PostSearch([r EXCEPT !.allFilters =
                Append(Append(@, Equals("pipeline", resolved.pipelineId)),
                       Equals(stageProperty(r.objectType), resolved.stage.stageId))])
    ELSE PostSearch([r EXCEPT !.allFilters = Append(@, Equals("pipeline", resolved.pipelineId))])

Resolving(s, resolved) == Resolved([s EXCEPT !.resolved = resolved], resolved)

AfterResolve(s, pipelines) ==
    Resolving(s, resolvePipeline(pipelines, s.pipeline_name, s.stage_name))

ResolvesPipeline(s) == Truthy(s.pipeline_name) /\ s.objectType \in PipelineTypes

cacheVarsButPipelines ==
    <<workflows, callers, batchReads, requests, concurrent, failedReads, lastAfter,
      directFetches, starter>>

\* search_crm is called; it gets as far as its first upstream request.
SearchStart(objectType, filters, pipeline_name, stage_name) ==
    LET s == [NoSearch EXCEPT !.objectType = objectType, !.filters = filters,
                              !.pipeline_name = pipeline_name, !.stage_name = stage_name,
                              !.allFilters = filters]
    IN  /\ search.pc = "idle"
        /\ searchCalls < MaxSearches
        /\ searchCalls' = searchCalls + 1
        /\ IF ResolvesPipeline(s) THEN
               IF Populated(pipelineCache[PipelineKey(objectType)]) THEN
                   /\ AfterResolve(s, pipelineCache[PipelineKey(objectType)].items)
                   /\ UNCHANGED listFetches
               ELSE
                   /\ search' = [s EXCEPT !.pc = "awaitPipelines"]
                   /\ Fetch(CategoryOfType(objectType))
                   /\ UNCHANGED posted
           ELSE IF Truthy(stage_name) /\ ~Truthy(pipeline_name) THEN
               /\ SearchReturns(s, SearchError("MISSING_PIPELINE"))
               /\ UNCHANGED listFetches
           ELSE
               /\ PostSearch(s)
               /\ UNCHANGED listFetches
        /\ UNCHANGED <<pipelineCache, okFetches, cacheVarsButPipelines>>
        /\ UNCHANGED <<renderVars, fuzzyVars, clientVars, readVars, handVars>>

\* The pipelines GET answered: getPipelines memoizes and returns the
\* pipelines, and search_crm goes on.
SearchPipelinesOk ==
    /\ search.pc = "awaitPipelines"
    /\ \E results \in PortalPipelines :
          /\ pipelineCache' =
                 [pipelineCache EXCEPT ![PipelineKey(search.objectType)] = Loaded(results)]
          /\ AfterResolve(search, results)
    /\ okFetches' = [okFetches EXCEPT ![CategoryOfType(search.objectType)] = @ + 1]
    /\ UNCHANGED <<searchCalls, listFetches, cacheVarsButPipelines>>
    /\ UNCHANGED <<renderVars, fuzzyVars, clientVars, readVars, handVars>>

\* The pipelines GET failed: resolvePipeline raises and search_crm returns
\* the formatted error.
SearchPipelinesFail ==
    /\ search.pc = "awaitPipelines"
    /\ SearchReturns(search, SearchFailed)
    /\ UNCHANGED <<searchCalls, cacheVars>>
    /\ UNCHANGED <<renderVars, fuzzyVars, clientVars, readVars, handVars>>

\* The search POST answered.
SearchAnswered ==
    /\ search.pc = "awaitSearch"
    /\ SearchReturns(search, SearchResult)
    /\ UNCHANGED <<searchCalls, cacheVars>>
    /\ UNCHANGED <<renderVars, fuzzyVars, clientVars, readVars, handVars>>

\* The search POST failed.
SearchFails ==
    /\ search.pc = "awaitSearch"
    /\ SearchReturns(search, SearchFailed)
    /\ UNCHANGED <<searchCalls, cacheVars>>
    /\ UNCHANGED <<renderVars, fuzzyVars, clientVars, readVars, handVars>>

SearchNext ==
    \/ \E objectType \in SearchTypes, filters \in FilterLists,
          pipeline_name \in PipelineNames, stage_name \in StageNames :
           SearchStart(objectType, filters, pipeline_name, stage_name)
    \/ SearchPipelinesOk
    \/ SearchPipelinesFail
    \/ SearchAnswered
    \/ SearchFails

\* search_crm in use; nothing else is.
SearchInit == RendererIdle /\ CacheIdle /\ FuzzyIdle /\ ToolsIdle

SearchSpec == SearchInit /\ [][SearchNext]_vars

\* ======================================================================
\* HubSpotClient.request (client.ts)
\* ======================================================================
\* The HTTP status of a rate-limited response.
RateLimited == 429

\* The HTTP status of a response without content.
NoContent == 204

\* The wait before the retry when the response names none.
DefaultWaitMs == 10000

\* A longer wait than the request allows.
MaxWaitMsRaised == 60 * MsPerSecond

\* The longest wait before the retry.
MaxWaitMs == 30000

\* The request methods of the two helpers, get and post.
Methods == {"GET", "POST"}

\* Two of the paths the tools request.
RequestPaths == {"/crm/v3/owners", "/crm/v3/objects/deals/search"}

\* The statuses upstream answers with.
Statuses == {200, 204, 400, 401, 404, 429, 500, 503}

\* The values of the Retry-After header of a response: none, an empty one,
\* counts of seconds, a count followed by text and a date.
RetryAfters == {Undef, "", "0", "5", "30", "31", "120", "5s", "Wed"}

\* response.ok of the fetch API.
Ok(status) == status >= 200 /\ status <= 299

RECURSIVE ParsePrefix(_, _, _)
\* The number the leading decimal digits of s denote from position i on,
\* NaN when s does not start with a digit.
ParsePrefix(s, i, acc) ==
    IF i > Len(s) THEN acc
    ELSE LET d == IndexIn(Digits, CharAt(s, i), 1)
         IN  IF d = 0 THEN acc
             ELSE ParsePrefix(s, i + 1, (IF acc = NaN THEN 0 ELSE acc) * 10 + (d - 1))

\* parseInt(s, 10) on text without sign or leading blanks.
parseInt(s) == ParsePrefix(s, 1, NaN)

\* a * b of two numbers, b a count.
NumTimes(a, b) == IF a = NaN THEN NaN ELSE a * b

\* Math.min(a, b) of a number and a count.
MathMin(a, b) == IF a = NaN THEN NaN ELSE IF a <= b THEN a ELSE b

\* The wait the request computes from the Retry-After header.
waitMs(retryAfter) ==
    IF Truthy(retryAfter) THEN NumTimes(parseInt(retryAfter), MsPerSecond)
    ELSE DefaultWaitMs

\* The delay of the timer the request sets before the retry.
RetryDelay(retryAfter) == MathMin(waitMs(retryAfter), MaxWaitMs)

\* The wait for every header value.
RetryDelays == [retryAfter \in RetryAfters |-> RetryDelay(retryAfter)]

\* A response of upstream.
Response(status, retryAfter) == [status |-> status, retryAfter |-> retryAfter]

\* new HubSpotApiError(status, ...)
HubSpotApiError(status) == [kind |-> "HubSpotApiError", status |-> status]

\* What the request returns on an ok response.
RequestReturns(status) ==
    [kind |-> IF status = NoContent THEN "undefined" ELSE "json", status |-> status]

\* A request is in progress.
RequestPending == request.pc \in {"fetching", "waiting", "retrying", "responded"}

\* HubSpotClient.request(path, {method}) up to the first fetch.
RequestStart(method, path) ==
    /\ ~RequestPending
    /\ request' = [pc |-> "fetching", method |-> method, path |-> path,
                   attempts |-> <<>>, waits |-> <<>>,
                   outcome |-> [kind |-> "none", status |-> 0]]
    /\ UNCHANGED <<renderVars, cacheVars, fuzzyVars, searchVars, readVars, handVars>>

\* The first fetch answers.
FirstResponse(status, retryAfter) ==
    /\ request.pc = "fetching"
    /\ request' = [request EXCEPT
                     !.attempts = Append(@, Response(status, retryAfter)),
                     !.pc = IF status = RateLimited THEN "waiting" ELSE "responded"]
    /\ UNCHANGED <<renderVars, cacheVars, fuzzyVars, searchVars, readVars, handVars>>

\* The timer of a rate-limited request fires.
RetryWait ==
    /\ request.pc = "waiting"
    /\ request' = [request EXCEPT
                     !.waits = Append(@, RetryDelays[request.attempts[1].retryAfter]),
                     !.pc = "retrying"]
    /\ UNCHANGED <<renderVars, cacheVars, fuzzyVars, searchVars, readVars, handVars>>

\* The second fetch answers.
SecondResponse(status, retryAfter) ==
    /\ request.pc = "retrying"
    /\ request' = [request EXCEPT
                     !.attempts = Append(@, Response(status, retryAfter)),
                     !.pc = "responded"]
    /\ UNCHANGED <<renderVars, cacheVars, fuzzyVars, searchVars, readVars, handVars>>

\* The request throws on a response that is not ok and returns otherwise.
RequestEnds ==
    /\ request.pc = "responded"
    /\ request' = [request EXCEPT
                     !.outcome = IF Ok(request.attempts[Len(request.attempts)].status)
                                 THEN RequestReturns(request.attempts[Len(request.attempts)].status)
                                 ELSE HubSpotApiError(request.attempts[Len(request.attempts)].status),
                     !.pc = IF Ok(request.attempts[Len(request.attempts)].status)
                            THEN "returned" ELSE "raised"]
    /\ UNCHANGED <<renderVars, cacheVars, fuzzyVars, searchVars, readVars, handVars>>

ClientNext ==
    \/ \E method \in Methods, path \in RequestPaths : RequestStart(method, path)
    \/ \E status \in Statuses, retryAfter \in RetryAfters : FirstResponse(status, retryAfter)
    \/ RetryWait
    \/ \E status \in Statuses, retryAfter \in RetryAfters : SecondResponse(status, retryAfter)
    \/ RequestEnds

ClientInit == RendererIdle /\ CacheIdle /\ FuzzyIdle /\ ToolsIdle

ClientSpec == ClientInit /\ [][ClientNext]_vars

\* ======================================================================
\* The upstream requests of the registered tools (server.ts, tools/*.ts)
\* ======================================================================
MaxToolCalls == 2

\* Object types a caller passes; the schema takes any string.
ObjectTypeArgs == {"deals", "contacts/batch/archive?"}

\* Record, list, campaign and flow ids a caller passes.
IdArgs == {"1"}

\* The lists of object ids a caller passes.
IdListArgs == {<<>>, <<"1">>}

\* The engagement types of get_contact_activity and search_engagements.
engagementTypes == <<"calls", "emails", "meetings", "notes", "tasks">>

\* The engagement types upstream returned associations for.
WithResults == {{}, {"calls"}, {"calls", "emails", "meetings", "notes", "tasks"}}

RECURSIVE CutFrom(_, _)
\* The position of the first '?' or '#' of s at or after i, Len(s) + 1 if none.
CutFrom(s, i) ==
    IF i > Len(s) THEN i
    ELSE IF CharAt(s, i) \in {"?", "#"} THEN i
    ELSE CutFrom(s, i + 1)

\* new URL(BASE_URL + path).pathname for a path without dot segments.
pathname(path) == SubSeq(path, 1, CutFrom(path, 1) - 1)

\* The request client.get(path) sends.
get(path) == [method |-> "GET", pathname |-> pathname(path)]

\* The request client.post(path, body) sends.
post(path) == [method |-> "POST", pathname |-> pathname(path)]

\* A tool call and the requests it sent.
ToolCall(tool, sent) == [tool |-> tool, requests |-> sent]

get_object(objectType, objectId) ==
    <<get("/crm/v3/objects/" \o objectType \o "/" \o objectId)>>

list_objects(objectType) == <<get("/crm/v3/objects/" \o objectType)>>

get_associations(fromObjectType, objectId, objectIds, toObjectType) ==
    IF ~Truthy(objectId) /\ Len(objectIds) = 0 THEN <<>>
    ELSE IF Truthy(objectId) /\ Len(objectIds) > 0 THEN <<>>
    ELSE IF Len(objectIds) > 0
    THEN <<post("/crm/v4/associations/" \o fromObjectType \o "/" \o toObjectType \o "/batch/read")>>
    ELSE <<get("/crm/v4/objects/" \o fromObjectType \o "/" \o objectId \o
               "/associations/" \o toObjectType)>>

get_objects_batch(objectType) ==
    <<post("/crm/v3/objects/" \o objectType \o "/batch/read")>>

RECURSIVE EngagementRequests(_, _, _)
\* The requests of get_contact_activity for the engagement types from n on.
EngagementRequests(contactId, withResults, n) ==
    IF n > Len(engagementTypes) THEN <<>>
    ELSE <<get("/crm/v4/objects/contacts/" \o contactId \o "/associations/" \o
               engagementTypes[n])>>
         \o (IF engagementTypes[n] \in withResults
             THEN <<post("/crm/v3/objects/" \o engagementTypes[n] \o "/batch/read")>>
             ELSE <<>>)
         \o EngagementRequests(contactId, withResults, n + 1)

get_contact_activity(contactId, includePageViews, includeEngagements, withResults) ==
    (IF includePageViews THEN <<get("/crm/v3/objects/contacts/" \o contactId)>> ELSE <<>>)
    \o (IF includeEngagements THEN EngagementRequests(contactId, withResults, 1) ELSE <<>>)

search_engagements(engagementType) ==
    <<post("/crm/v3/objects/" \o engagementType \o "/search")>>

list_pipelines(objectType) == <<get("/crm/v3/pipelines/" \o objectType)>>

list_properties(objectType) == <<get("/crm/v3/properties/" \o objectType)>>

list_owners == <<get("/crm/v3/owners")>>

list_custom_object_schemas == <<get("/crm/v3/schemas")>>

get_analytics(breakdownBy, timePeriod) ==
    <<get("/analytics/v2/reports/" \o breakdownBy \o "/" \o timePeriod)>>

search_lists == <<post("/crm/v3/lists/search")>>

get_list_memberships(listId) == <<get("/crm/v3/lists/" \o listId \o "/memberships")>>

\* The requests of search_crm: the pipelines when the cache has to load
\* them, the search unless the call returned a warning before.
search_crm(objectType, loads, searches) ==
    (IF loads THEN <<get("/crm/v3/pipelines/" \o objectType)>> ELSE <<>>)
    \o (IF searches THEN <<post("/crm/v3/objects/" \o objectType \o "/search")>> ELSE <<>>)

list_email_campaigns == <<get("/email/public/v1/campaigns")>>

get_email_campaign(campaignId) ==
    <<get("/email/public/v1/campaigns/" \o campaignId), get("/email/public/v1/events")>>

list_marketing_events == <<get("/marketing/v3/marketing-events")>>

list_sequences(resolves, found) ==
    (IF resolves THEN <<get("/crm/v3/owners")>> ELSE <<>>)
    \o (IF resolves /\ ~found THEN <<>> ELSE <<get("/automation/v4/sequences")>>)

get_sequence_enrollments(contactId) ==
    <<get("/automation/v4/sequences/enrollments/contact/" \o contactId)>>

\* The requests of the workflow cache for list_workflows and get_workflow:
\* the list and the batch read of a load, the single flow of a direct fetch.
WorkflowCacheRequests(loads, flowId) ==
    (IF loads THEN <<get("/automation/v4/flows"), post("/automation/v4/flows/batch/read")>>
     ELSE <<>>)
    \o (IF Truthy(flowId) THEN <<get("/automation/v4/flows/" \o flowId)>> ELSE <<>>)

\* The calls of the tools registerObjectTools registers.
ObjectCalls ==
    {ToolCall("get_object", get_object(t, id)) : t \in ObjectTypeArgs, id \in IdArgs}
    \cup {ToolCall("list_objects", list_objects(t)) : t \in ObjectTypeArgs}
    \cup {ToolCall("get_associations", get_associations(t, id, ids, "contacts")) :
          t \in ObjectTypeArgs, id \in IdArgs \cup {Undef}, ids \in IdListArgs}
    \cup {ToolCall("get_objects_batch", get_objects_batch(t)) : t \in ObjectTypeArgs}

\* The calls of the tools registerTimelineTools registers.
TimelineCalls ==
    {ToolCall("get_contact_activity", get_contact_activity(id, views, engagements, found)) :
     id \in IdArgs, views \in BOOLEAN, engagements \in BOOLEAN, found \in WithResults}
    \cup {ToolCall("search_engagements", search_engagements(engagementTypes[n])) :
          n \in 1..Len(engagementTypes)}

\* The calls of the tools registerDiscoveryTools registers.
DiscoveryCalls ==
    {ToolCall("list_pipelines", list_pipelines(t)) : t \in ObjectTypeArgs}
    \cup {ToolCall("list_properties", list_properties(t)) : t \in ObjectTypeArgs}
    \cup {ToolCall("list_owners", list_owners),
          ToolCall("list_custom_object_schemas", list_custom_object_schemas)}

\* The calls of the tool registerAnalyticsTools registers.
AnalyticsCalls ==
    {ToolCall("get_analytics", get_analytics(by, period)) :
     by \in {"sources", "totals"}, period \in {"daily", "summarize/monthly"}}

\* The calls of the tools registerListTools registers.
ListCalls ==
    {ToolCall("search_lists", search_lists)}
    \cup {ToolCall("get_list_memberships", get_list_memberships(id)) : id \in IdArgs}

\* The calls of the tool registerSearchTools registers.
SearchCalls ==
    {ToolCall("search_crm", search_crm(t, loads, searches)) :
     t \in ObjectTypeArgs, loads \in BOOLEAN, searches \in BOOLEAN}

\* The calls of the tools registerMarketingTools registers.
MarketingCalls ==
    {ToolCall("list_email_campaigns", list_email_campaigns),
     ToolCall("list_marketing_events", list_marketing_events)}
    \cup {ToolCall("get_email_campaign", get_email_campaign(id)) : id \in IdArgs}

\* The calls of the tools registerSequenceTools registers.
SequenceCalls ==
    {ToolCall("list_sequences", list_sequences(resolves, found)) :
     resolves \in BOOLEAN, found \in BOOLEAN}
    \cup {ToolCall("get_sequence_enrollments", get_sequence_enrollments(id)) : id \in IdArgs}

\* The calls of the tools registerWorkflowTools registers.
WorkflowCalls ==
    {ToolCall("list_workflows", WorkflowCacheRequests(loads, Undef)) : loads \in BOOLEAN}
    \cup {ToolCall("get_workflow", WorkflowCacheRequests(loads, id)) :
          loads \in BOOLEAN, id \in IdArgs \cup {Undef}}

\* A tool of the set is called and sends its requests.
Called(calls) ==
    /\ Len(toolLog) < MaxToolCalls
    /\ \E made \in calls : toolLog' = Append(toolLog, made)
    /\ UNCHANGED <<renderVars, cacheVars, fuzzyVars, searchVars, clientVars, handVars>>

DiscoveryTool == Called(DiscoveryCalls)

ObjectTool == Called(ObjectCalls)

SearchTool == Called(SearchCalls)

TimelineTool == Called(TimelineCalls)

MarketingTool == Called(MarketingCalls)

AnalyticsTool == Called(AnalyticsCalls)

SequenceTool == Called(SequenceCalls)

ListTool == Called(ListCalls)

WorkflowTool == Called(WorkflowCalls)

ReadNext ==
    \/ DiscoveryTool
    \/ ObjectTool
    \/ SearchTool
    \/ TimelineTool
    \/ MarketingTool
    \/ AnalyticsTool
    \/ SequenceTool
    \/ ListTool
    \/ WorkflowTool

ReadInit == RendererIdle /\ CacheIdle /\ FuzzyIdle /\ ToolsIdle

ReadSpec == ReadInit /\ [][ReadNext]_vars

\* ======================================================================
\* get_workflow (tools/workflows.ts) over WorkflowCache.getById
\* ======================================================================
\* No batch detail was read for a flow.
NoDetail == [absent |-> TRUE]

\* The flows upstream holds, as the list, the batch read and the single
\* fetch return them.
UpstreamFlows ==
    {[id |-> "1", name |-> flowName, isEnabled |-> isEnabled, objectTypeId |-> "0-1",
      triggerType |-> triggerType, startActionId |-> ActionId(1), actions |-> actions,
      enrollmentCriteria |-> ec] :
        flowName \in {Undef, "W"}, isEnabled \in BOOLEAN,
        triggerType \in {Undef, "CONTACT_LIST"},
        actions \in {<<Single(ActionId(1), "0-5", NoFields, NoConn)>>},
        ec \in Criteria}

\* What the batch read returns for a listed flow: nothing, or its detail.
DetailsOf(f) ==
    {NoDetail, f, [f EXCEPT !.name = "W2", !.triggerType = Undef]}

\* object.property of a property the object may not have.
PropertyOf(object, property) ==
    IF property \in DOMAIN object THEN object[property] ELSE NoCriteria

\* The summary the cache keeps of a flow whose list entry has its actions.
ListedSummary(f) ==
    [id |-> f.id, name |-> Coalesce(f.name, "Workflow " \o f.id),
     isEnabled |-> f.isEnabled, objectTypeId |-> f.objectTypeId,
     triggerType |-> f.triggerType, startActionId |-> f.startActionId,
     actions |-> f.actions]

\* The summary the cache keeps of a listed flow merged with its batch detail.
MergedSummary(f, detail) ==
    IF detail = NoDetail THEN ListedSummary(f)
    ELSE [id |-> f.id,
          name |-> Coalesce(Coalesce(detail.name, f.name), "Workflow " \o f.id),
          isEnabled |-> detail.isEnabled,
          objectTypeId |-> Coalesce(detail.objectTypeId, f.objectTypeId),
          triggerType |-> Coalesce(detail.triggerType, f.triggerType),
          startActionId |-> Coalesce(detail.startActionId, f.startActionId),
          actions |-> detail.actions]

\* The summary getById builds from a direct fetch.
FetchedSummary(data) ==
    [id |-> data.id, name |-> Coalesce(data.name, "Workflow " \o data.id),
     isEnabled |-> data.isEnabled, objectTypeId |-> data.objectTypeId,
     triggerType |-> data.triggerType, startActionId |-> data.startActionId,
     actions |-> data.actions]

\* The flow get_workflow builds from the summary for the renderer.
FlowOf(workflow) ==
    [id |-> workflow.id, name |-> workflow.name, isEnabled |-> workflow.isEnabled,
     objectTypeId |-> workflow.objectTypeId, triggerType |-> workflow.triggerType,
     startActionId |-> workflow.startActionId, actions |-> workflow.actions,
     enrollmentCriteria |-> PropertyOf(workflow, "enrollmentCriteria")]

\* A get_workflow call that has its summary from the cache: how the cache
\* came by it, what upstream returned, and the summary.
Got(via, listed, detail, workflow) ==
    [pc |-> "got", via |-> via, listed |-> listed, detail |-> detail,
     workflow |-> workflow, flow |-> NoDetail, header |-> <<>>]

\* No get_workflow call is in progress.
HandIdle == handed.pc \in {"idle", "rendered", "notFound"}

\* getById finds the flow in a cache loaded from a list with full details.
GetByIdListed(f) ==
    /\ HandIdle
    /\ Len(f.actions) > 0
    /\ handed' = Got("list", f, NoDetail, ListedSummary(f))
    /\ UNCHANGED <<renderVars, cacheVars, fuzzyVars, searchVars, clientVars, readVars>>

\* getById finds the flow in a cache loaded from a list without details and
\* the batch read, which returned the detail of the flow or failed.
GetByIdMerged(f, detail) ==
    /\ HandIdle
    /\ handed' = Got("merge", [f EXCEPT !.actions = <<>>], detail,
                     MergedSummary([f EXCEPT !.actions = <<>>], detail))
    /\ UNCHANGED <<renderVars, cacheVars, fuzzyVars, searchVars, clientVars, readVars>>

\* getById does not find the flow in the cache and fetches it.
GetByIdFetched(data) ==
    /\ HandIdle
    /\ handed' = Got("fetch", NoDetail, data, FetchedSummary(data))
    /\ UNCHANGED <<renderVars, cacheVars, fuzzyVars, searchVars, clientVars, readVars>>

\* The direct fetch fails: getById returns null, the tool WORKFLOW_NOT_FOUND.
GetByIdFails ==
    /\ HandIdle
    /\ handed' = [pc |-> "notFound", via |-> "fetch", listed |-> NoDetail,
                  detail |-> NoDetail, workflow |-> NotFound, flow |-> NoDetail,
                  header |-> <<>>]
    /\ UNCHANGED <<renderVars, cacheVars, fuzzyVars, searchVars, clientVars, readVars>>

\* get_workflow builds the flow and hands it to renderWorkflow, which draws
\* the header from it.
HandsFlow ==
    /\ handed.pc = "got"
    /\ handed' = [handed EXCEPT !.pc = "rendered",
                                !.flow = FlowOf(handed.workflow),
                                !.header = HeaderLines(FlowOf(handed.workflow))]
    /\ UNCHANGED <<renderVars, cacheVars, fuzzyVars, searchVars, clientVars, readVars>>

HandNext ==
    \/ \E f \in UpstreamFlows : GetByIdListed(f)
    \/ \E f \in UpstreamFlows : \E detail \in DetailsOf(f) : GetByIdMerged(f, detail)
    \/ \E data \in UpstreamFlows : GetByIdFetched(data)
    \/ GetByIdFails
    \/ HandsFlow

HandInit == RendererIdle /\ CacheIdle /\ FuzzyIdle /\ ToolsIdle

HandSpec == HandInit /\ [][HandNext]_vars

\* ======================================================================
\* Properties
\* ======================================================================
RECURSIVE TrimLeftFrom(_, _)
TrimLeftFrom(s, i) ==
    IF i > Len(s) THEN ""
    ELSE IF CharAt(s, i) = " " THEN TrimLeftFrom(s, i + 1)
    ELSE SubSeq(s, i, Len(s))

\* A line without its leading spaces.
TrimLeft(s) == TrimLeftFrom(s, 1)

\* Number of boxes in a diagram: every box, and nothing else, has one
\* bottom-left corner.
CountBoxes(text) == CountChar(text, BotLeft)

\* The lines of a sequence that contain the text t.
LinesWith(ls, t) == {i \in 1..Len(ls) : Includes(ls[i], t)}

\* A renderWorkflow call is walking the graph.
Walking == pc \in {"call", "loop", "ret"}

\* The step is taken inside one renderWorkflow call (it does not begin one).
InsideCall == pc \notin {"idle", "done"}

\* The start action is a linear action whose connection points to itself.
SelfLoopStart ==
    /\ ~NoActions(flow)
    /\ \E i \in 1..Len(flow.actions) :
          /\ flow.actions[i].actionId = flow.startActionId
          /\ \A j \in (i + 1)..Len(flow.actions) :
                flow.actions[j].actionId # flow.startActionId
          /\ flow.actions[i].type = "SINGLE_CONNECTION"
          /\ NextOf(flow.actions[i].connection) = flow.startActionId

\* C1: within the depth bound, a reference to an action that already has a
\* step number returns the single line "[-> step N]", N being the number the
\* action got at its first visit, draws no box, numbers nothing and recurses
\* no further; numbers, once given, stay during the call, so a diagram has
\* exactly one box per numbered action; and a start action that points to
\* itself is step 1 with "[-> step 1]" under its one box.
C1_BackReferenceOnly ==
    [][ /\ (pc = "call" /\ call.depth <= MAX_DEPTH /\ call.actionId \in DOMAIN ctx.visited)
            => /\ pc' = "ret"
               /\ result' = <<"[" \o ArrowRight \o " step "
                               \o ToString(ctx.visited[call.actionId]) \o "]">>
               /\ ctx' = ctx
               /\ stack' = stack
        /\ InsideCall =>
              \A id \in DOMAIN ctx.visited :
                  id \in DOMAIN ctx'.visited /\ ctx'.visited[id] = ctx.visited[id]
        /\ (pc' = "done" /\ ~NoActions(flow)) =>
              CountBoxes(output') = Cardinality(DOMAIN ctx'.visited)
        /\ (pc' = "done" /\ SelfLoopStart) =>
              /\ ctx'.visited[flow.startActionId] = 1
              /\ CountBoxes(output') = 1
              /\ TrimLeft(lines'[Len(lines')]) = "[" \o ArrowRight \o " step 1]"
              /\ Cardinality(LinesWith(lines', " 1. ")) = 1
      ]_vars

\* A self-loop on the start action has been rendered.
C1_Witness ==
    /\ pc = "done"
    /\ SelfLoopStart
    /\ Includes(output, "[" \o ArrowRight \o " step 1]")

DistinctIds(f) == {f.actions[i].actionId : i \in 1..Len(f.actions)}

\* C3: the visited map numbers the visited actions 1..k without gap or
\* repeat and the counter is its size; inside a call the counter never
\* decreases and changes only at the first visit of a known action, by one,
\* giving that action the new number and leaving the others alone; every
\* activation on the stack carries the number of its action, numbers grow
\* from the outermost activation inwards (pre-order), and a branch takes its
\* connections in input order, one column per connection already handled.
WellNumbered(c) ==
    /\ c.stepCounter = Cardinality(DOMAIN c.visited)
    /\ {c.visited[id] : id \in DOMAIN c.visited} = 1..c.stepCounter
    /\ \A id1, id2 \in DOMAIN c.visited : c.visited[id1] = c.visited[id2] => id1 = id2

PreOrder(st, c) ==
    /\ \A k \in 1..Len(st) :
          /\ st[k].actionId \in DOMAIN c.visited
          /\ c.visited[st[k].actionId] = st[k].stepNum
          /\ st[k].i = Len(st[k].columns) + 1
    /\ \A k \in 1..(Len(st) - 1) : st[k].stepNum < st[k + 1].stepNum

C3_StepNumbering ==
    [][ /\ WellNumbered(ctx')
        /\ PreOrder(stack', ctx')
        /\ InsideCall => ctx'.stepCounter >= ctx.stepCounter
        /\ (InsideCall /\ ctx' # ctx) =>
              /\ pc = "call"
              /\ call.actionId \in DOMAIN ctx.actionMap
              /\ call.actionId \notin DOMAIN ctx.visited
              /\ ctx'.stepCounter = ctx.stepCounter + 1
              /\ ctx'.visited = (call.actionId :> ctx'.stepCounter) @@ ctx.visited
              /\ ctx'.actionMap = ctx.actionMap
        /\ (pc' = "ret" /\ \/ result' = <<"[... max depth reached]">>
                           \/ \E n \in 1..ctx.stepCounter :
                                 result' = <<"[" \o ArrowRight \o " step " \o ToString(n) \o "]">>
                           \/ /\ pc = "call"
                              /\ result' = <<"[unknown action: " \o call.actionId \o "]">>)
              => ctx' = ctx
        /\ (pc = "loop" /\ Len(stack') = Len(stack) /\ pc' = "loop") => ctx' = ctx
      ]_vars

\* Three actions have been numbered, the third one inside a branch column.
C3_Witness ==
    /\ ctx.stepCounter = 3
    /\ Len(stack) = 2
    /\ Top.kind = "branch"
    /\ Len(Top.columns) = 1
    /\ pc = "ret"
    /\ Len(result) = 3

\* C4: a renderAction call deeper than 50 returns the depth-limit
\* placeholder, whatever its target, without numbering or recursing; so no
\* action is numbered, and no activation waits, deeper than 50.
C4_DepthCeiling ==
    [][ /\ (pc = "call" /\ call.depth > 50) =>
              /\ pc' = "ret"
              /\ result' = <<"[... max depth reached]">>
              /\ ctx' = ctx
              /\ stack' = stack
        /\ (InsideCall /\ ctx'.stepCounter # ctx.stepCounter) => call.depth <= 50
        /\ \A k \in 1..Len(stack') : stack'[k].depth <= 50
      ]_vars

\* A call deeper than the ceiling has hit an already numbered action.
C4_Witness ==
    /\ pc = "ret"
    /\ call.depth = MAX_DEPTH + 1
    /\ call.actionId \in DOMAIN ctx.visited
    /\ result = <<"[... max depth reached]">>

\* The steps an action costs the walk when it is visited for the first time:
\* a terminal action its visit; a linear action its visit and the return of
\* its successor; a branch of k columns its visit, its layout, and for every
\* column at most the recursion, the step of the callee and its return.
VisitCost(action) ==
    LET k == Len(BranchConnections(action))
    IN  IF k > 0 THEN 3 * k + 1
        ELSE IF Truthy(NextOf(action.connection)) THEN 2 ELSE 1

RECURSIVE UnvisitedCost(_, _)
UnvisitedCost(c, ids) ==
    IF ids = {} THEN 0
    ELSE LET id == CHOOSE x \in ids : TRUE
         IN  VisitCost(c.actionMap[id]) + UnvisitedCost(c, ids \ {id})

\* The steps an activation on the stack still has to take.
FrameCost(p, st, k) ==
    LET f    == st[k]
        n    == Len(f.connections)
        busy == k < Len(st) \/ p # "loop"
    IN  IF f.kind = "linear" THEN 1
        ELSE IF busy THEN 3 * (n - f.i) + 2
        ELSE 3 * (n - f.i + 1) + 1

RECURSIVE StackCost(_, _, _)
StackCost(p, st, k) ==
    IF k = 0 THEN 0 ELSE FrameCost(p, st, k) + StackCost(p, st, k - 1)

\* A bound on the steps a renderWorkflow call still has to take.
Rank(p, c, st) ==
    IF p \in {"idle", "done"} THEN 0
    ELSE 1 + (IF p = "call" THEN 1 ELSE 0)
           + UnvisitedCost(c, DOMAIN c.actionMap \ DOMAIN c.visited)
           + StackCost(p, st, Len(st))

\* Inside a call the renderer has a step to take: a call is answered, a
\* return is taken by the activation waiting for it or by renderWorkflow, a
\* branch goes on with its columns or lays them out.
HasStep(p, st) ==
    \/ p = "call"
    \/ p = "ret" /\ (st = <<>> \/ st[Len(st)].kind \in {"linear", "branch"})
    \/ p = "loop" /\ st # <<>> /\ st[Len(st)].kind = "branch"

\* C2: renderWorkflow terminates on every flow, with cycles and with
\* re-converging branches as without: inside a call the renderer always has
\* a step to take and every step lowers a natural-number bound on the steps
\* left, a bound that depends on the actions not yet numbered and not on the
\* depth ceiling; and the diagram returned has at most one box per distinct
\* action id of the flow.
C2_TerminatesBoundedBoxes ==
    [][ /\ InsideCall => /\ Rank(pc', ctx', stack') < Rank(pc, ctx, stack)
                         /\ Rank(pc', ctx', stack') >= 0
        /\ pc' \notin {"idle", "done"} => HasStep(pc', stack')
        /\ pc' = "done" => /\ output' # Undef
                           /\ CountBoxes(output') <= Cardinality(DistinctIds(flow))
      ]_vars

\* A flow in which the second action is reached again from the third (a
\* cycle that re-converges) has been rendered, every action boxed once.
C2_Witness ==
    /\ pc = "done"
    /\ Cardinality(DOMAIN ctx.visited) = 3
    /\ CountBoxes(output) = 3
    /\ Includes(output, "[" \o ArrowRight \o " step 2]")

\* The ids an action leads to: the targets of its columns when it is
\* rendered as a branch, its successor otherwise.
NextTargets(action) ==
    LET conns == BranchConnections(action)
    IN  IF Len(conns) > 0
        THEN {conns[i].nextActionId : i \in {j \in 1..Len(conns) : Truthy(conns[j].nextActionId)}}
        ELSE IF Truthy(NextOf(action.connection)) THEN {NextOf(action.connection)}
        ELSE {}

\* The actions the actions of a set lead to.
Successors(map, ids) ==
    UNION {NextTargets(map[id]) : id \in ids} \cap DOMAIN map

\* The number of actions on the longest chain of consecutive actions whose
\* k-th actions are the set layer; more than there are actions when the
\* chains come back to themselves and do not end.
RECURSIVE LongestChain(_, _, _)
LongestChain(map, layer, k) ==
    IF layer = {} \/ k > Cardinality(DOMAIN map) THEN k
    ELSE LongestChain(map, Successors(map, layer), k + 1)

ChainLength(f) ==
    LET map == ActionMapFrom(f.actions, Len(f.actions))
    IN  LongestChain(map, {f.startActionId} \cap DOMAIN map, 0)

\* No chain of actions from the start action comes back to itself.
Acyclic(f) == ChainLength(f) <= Cardinality(DistinctIds(f))

\* The actions that can be reached from the actions of a set.
RECURSIVE ReachableFrom(_, _)
ReachableFrom(map, ids) ==
    LET more == ids \cup Successors(map, ids)
    IN  IF more = ids THEN ids ELSE ReachableFrom(map, more)

\* One chain of actions from the start action, none of them rendered as a
\* branch, that does not come back to itself.
LinearChain(f) ==
    LET map == ActionMapFrom(f.actions, Len(f.actions))
    IN  /\ ~NoActions(f)
        /\ Acyclic(f)
        /\ \A id \in ReachableFrom(map, {f.startActionId} \cap DOMAIN map) :
               Len(BranchConnections(map[id])) = 0

\* The id the last action of a linear chain points to, if it points anywhere.
RECURSIVE ChainExit(_, _)
ChainExit(map, id) ==
    IF id \notin DOMAIN map THEN id
    ELSE IF NextTargets(map[id]) = {} THEN Undef
    ELSE ChainExit(map, CHOOSE t \in NextTargets(map[id]) : TRUE)

\* How often the depth-limit placeholder occurs in a diagram.
DepthPlaceholders(text) ==
    Cardinality({i \in 1..Len(text) :
        /\ CharAt(text, i) = "["
        /\ i + 22 <= Len(text)
        /\ SubSeq(text, i, i + 22) = "[... max depth reached]"})

\* C5 as the specification states it: an acyclic flow whose chain of
\* consecutive actions leads more than 50 steps away from the start action
\* is rendered with exactly one depth-limit placeholder.
C5_ExactlyOnceBeyondFifty ==
    (pc = "done" /\ ~NoActions(flow) /\ Acyclic(flow) /\ ChainLength(flow) - 1 > 50)
        => DepthPlaceholders(output) = 1

\* C5, amended: the start action is at depth 0 and the ceiling is crossed by
\* the call at depth 51.  A flow that is one chain of linear actions without
\* a cycle is rendered with exactly one depth-limit placeholder, on its last
\* line, when the chain has more than 51 actions; with none when it has fewer
\* than 51; and a chain of exactly 51 actions is rendered in full, with the
\* placeholder only if its last action points to an id that is no action.
C5_LinearChainPlaceholder ==
    (pc = "done" /\ LinearChain(flow)) =>
        LET n == ChainLength(flow)
            k == DepthPlaceholders(output)
        IN  /\ n > MAX_DEPTH + 1 => /\ k = 1
                                    /\ TrimLeft(lines[Len(lines)]) = "[... max depth reached]"
                                    /\ ctx.stepCounter = MAX_DEPTH + 1
            /\ n < MAX_DEPTH + 1 => k = 0
            /\ n = MAX_DEPTH + 1 =>
                  /\ ctx.stepCounter = n
                  /\ k = IF Truthy(ChainExit(ctx.actionMap, flow.startActionId)) THEN 1 ELSE 0

\* A linear chain of more than 51 actions has been rendered.
C5_Witness ==
    /\ pc = "done"
    /\ LinearChain(flow)
    /\ ChainLength(flow) > MAX_DEPTH + 1
    /\ DepthPlaceholders(output) = 1

\* The flow has no start action id or no actions.
NothingToWalk == flow.startActionId \in {Undef, ""} \/ flow.actions = <<>>

\* C6: structural problems degrade to placeholders and never stop the
\* renderer.  A call, within the depth bound, on an id that is no action of
\* the flow (the start id included) returns the single line
\* "[unknown action: <id>]" to its caller and changes nothing else, and the
\* caller goes on: inside a call there is always a step to take; in the
\* finished diagram of a flow of at most MAX_DEPTH actions every action that
\* can be reached from the start action is numbered, whatever unknown ids its
\* siblings point to, and every unknown id a numbered action points to is
\* shown by its placeholder; and a flow with no start id or no actions is
\* rendered as its header block followed by the connector and "(no actions)".
C6_PlaceholdersNeverRaise ==
    [][ /\ (pc = "call" /\ call.depth <= MAX_DEPTH /\ call.actionId \notin DistinctIds(flow))
            => /\ pc' = "ret"
               /\ result' = <<"[unknown action: " \o call.actionId \o "]">>
               /\ ctx' = ctx
               /\ stack' = stack
        /\ pc' \notin {"idle", "done"} => HasStep(pc', stack')
        /\ pc' = "done" => SubSeq(lines', 1, Len(HeaderBlock(flow))) = HeaderBlock(flow)
        /\ (pc' = "done" /\ NothingToWalk) =>
              /\ lines' = HeaderBlock(flow) \o <<"        |", "    (no actions)">>
              /\ output' = Join(lines', "\n")
        /\ (pc' = "done" /\ ~NothingToWalk /\ Cardinality(DistinctIds(flow)) <= MAX_DEPTH) =>
              /\ lines'[Len(lines')] # "    (no actions)"
              /\ DOMAIN ctx'.visited =
                    ReachableFrom(ctx'.actionMap, {flow.startActionId} \cap DOMAIN ctx'.actionMap)
              /\ \A id \in DOMAIN ctx'.visited :
                    \A t \in NextTargets(ctx'.actionMap[id]) \ DOMAIN ctx'.actionMap :
                        LinesWith(lines', "[unknown action: " \o t \o "]") # {}
              /\ flow.startActionId \notin DistinctIds(flow) =>
                    /\ Len(lines') = Len(HeaderBlock(flow)) + 3
                    /\ TrimLeft(lines'[Len(lines')])
                          = "[unknown action: " \o flow.startActionId \o "]"
      ]_vars

\* A branch whose first column points to an unknown id and whose second
\* column points to an action has been rendered: placeholder and sibling.
C6_Witness ==
    /\ pc = "done"
    /\ Includes(output, "[unknown action: " \o UnknownId \o "]")
    /\ ctx.stepCounter = 2
    /\ \E i \in 1..Len(flow.actions) :
          /\ flow.actions[i].actionId = flow.startActionId
          /\ Len(flow.actions[i].connections) = 2
          /\ flow.actions[i].connections[1].nextActionId = UnknownId
          /\ flow.actions[i].connections[2].nextActionId \in DOMAIN ctx.visited

\* The branch connections of a branch container as the specification counts
\* them: for the v4 shape its listBranches followed by its default branch
\* when it has one, otherwise its connections.
ClaimedConnections(action) ==
    IF Len(action.listBranches) > 0 THEN Normalized(action)
    ELSE IF Len(action.connections) > 0 THEN action.connections
    ELSE IF action.defaultBranch # NoConn
         THEN <<[nextActionId |-> action.defaultBranch.nextActionId,
                 branchName   |-> Coalesce(action.defaultBranchName, "Default")]>>
         ELSE <<>>

\* The first visit of a branch container that has branch connections.
BranchContainerVisit ==
    /\ pc = "call"
    /\ call.depth <= MAX_DEPTH
    /\ call.actionId \in DOMAIN ctx.actionMap
    /\ call.actionId \notin DOMAIN ctx.visited
    /\ isBranch(ctx.actionMap[call.actionId])
    /\ Len(ClaimedConnections(ctx.actionMap[call.actionId])) > 0

\* What the renderer does with the columns of the branch it is working on.
ColumnsInOrder ==
    /\ (pc = "loop" /\ pc' = "ret") => Len(Top.columns) = Len(Top.connections)
    /\ (pc = "loop" /\ Top.i <= Len(Top.connections)) =>
          IF Top.connections[Top.i].nextActionId \in {Undef, ""}
          THEN /\ pc' = "loop"
               /\ ctx' = ctx
               /\ Len(stack') = Len(stack)
               /\ Len(stack'[Len(stack')].columns) = Top.i
               /\ stack'[Len(stack')].columns[Top.i].lines = <<"(end)">>
          ELSE /\ pc' = "call"
               /\ call' = [actionId |-> Top.connections[Top.i].nextActionId,
                           depth |-> Top.depth + 1]
               /\ stack' = stack
    /\ (pc = "ret" /\ stack # <<>> /\ Top.kind = "branch") =>
          /\ pc' = "loop"
          /\ Len(stack'[Len(stack')].columns) = Top.i
          /\ stack'[Len(stack')].columns[Top.i].lines = result

\* C7: a branch container with N branch connections is rendered with N
\* columns, one per connection in input order; a column whose connection has
\* no next action is the leaf "(end)", without a call and without a step
\* number; every other column is the rendering of its next action.
C7_ColumnPerConnection ==
    [][ /\ BranchContainerVisit =>
              /\ pc' = "loop"
              /\ Len(stack') = Len(stack) + 1
              /\ stack'[Len(stack')].connections
                    = ClaimedConnections(ctx.actionMap[call.actionId])
              /\ stack'[Len(stack')].columns = <<>>
        /\ ColumnsInOrder
      ]_vars

\* C8: rendering is repeatable.  Every renderWorkflow call begins with an
\* empty visited map, a zero step counter, an action map built from the
\* flow and no activation left over from an earlier call; no step changes
\* the flow or the actions in the map; and every call after the first
\* returns the very text the call before it returned.
C8_Idempotent ==
    [][ /\ flow' = flow
        /\ (pc \in {"idle", "done"} /\ pc' = "call") =>
              /\ ctx'.visited = <<>>
              /\ ctx'.stepCounter = 0
              /\ ctx'.actionMap = ActionMapFrom(flow.actions, Len(flow.actions))
              /\ stack' = <<>>
              /\ call'.depth = 0
        /\ InsideCall => ctx'.actionMap = ctx.actionMap
        /\ (pc' = "done" /\ renders' >= 2) =>
              /\ prevOutput' # Undef
              /\ output' = prevOutput'
      ]_vars

\* A flow with a cycle has been rendered a second time, three boxes and a
\* back-reference each time.
C8_Witness ==
    /\ pc = "done"
    /\ renders = 2
    /\ output = prevOutput
    /\ ctx.stepCounter = 3
    /\ LinesWith(lines, "[" \o ArrowRight \o " step 1]") # {}

\* String.prototype.indexOf, counted from 1; 0 when t does not occur in s.
IndexOf(s, t) ==
    LET hits == {i \in 1..(Len(s) - Len(t) + 1) : SubSeq(s, i, i + Len(t) - 1) = t}
    IN  IF hits = {} THEN 0 ELSE CHOOSE i \in hits : \A j \in hits : i <= j

\* The id of the e-mail the send-email action of a scenario flow sends.
ScenarioEmailId(f) ==
    CHOOSE id \in EmailIds : f.actions[3].fields \in EmailFields(id)

\* C9: the end-to-end scenario.  A delay of 2 DAYS, a branch with the columns
\* Yes and No, a terminal send-email action under Yes and nothing under No
\* are rendered as: box "1. Delay" with the detail "2 days", below it box
\* "2. Branch", below that the labels "[Yes]" and "[No]" in this order on one
\* row, and under the arrows the box "3. Send Email" with the detail
\* "ID: <id>" in the Yes column and the leaf "(end)" in the No column; the
\* steps are numbered 1 (delay), 2 (branch), 3 (send email) and the diagram
\* has these three boxes and no placeholder.
C9_EndToEndScenario ==
    (pc = "done" /\ flow \in ScenarioFlows) =>
        /\ ctx.visited = ("d" :> 1) @@ ("b" :> 2) @@ ("m" :> 3)
        /\ CountBoxes(output) = 3
        /\ ~Includes(output, "[unknown") /\ ~Includes(output, "[...")
        /\ \E i, j, k \in 1..Len(lines) :
              /\ i + 1 < j /\ j < k /\ k + 4 <= Len(lines)
              /\ Includes(lines[i], VLine \o "     1. Delay     " \o VLine)
              /\ Includes(lines[i + 1], VLine \o "       2 days     " \o VLine)
              /\ Includes(lines[j], " 2. Branch ")
              /\ IndexOf(lines[k], "[Yes]") > 0
              /\ IndexOf(lines[k], "[No]") > IndexOf(lines[k], "[Yes]") + 5
              /\ IndexOf(lines[k + 2], TopLeft) > 0
              /\ IndexOf(lines[k + 2], "(end)") > IndexOf(lines[k + 2], TopRight)
              /\ IndexOf(lines[k], "[No]") - IndexOf(lines[k + 2], "(end)") \in 0..MinColumnWidth
              /\ IndexOf(lines[k + 3], " 3. Send Email ") > 0
              /\ IndexOf(lines[k + 3], " 3. Send Email ") < IndexOf(lines[k], "[No]")
              /\ IndexOf(lines[k + 4], " ID: " \o ScenarioEmailId(flow) \o " ") > 0
              /\ IndexOf(lines[k + 4], " ID: " \o ScenarioEmailId(flow) \o " ")
                    < IndexOf(lines[k], "[No]")
              /\ \A n \in 1..Len(lines) : n # k + 2 => ~Includes(lines[n], "(end)")

\* A scenario flow in the v4 shape (listBranches and a default branch named
\* No) has been rendered.
C9_Witness ==
    /\ pc = "done"
    /\ flow \in ScenarioFlows
    /\ Len(flow.actions[2].listBranches) = 1
    /\ flow.actions[2].defaultBranchName = "No"
    /\ LinesWith(lines, "2 days") # {}
    /\ LinesWith(lines, "(end)") # {}

\* The memoized entry of a category.
Memo(category) ==
    IF category = WorkflowsCategory THEN workflows ELSE pipelineCache[category]

\* The category a caller's call is about.
CategoryOf(caller) ==
    IF caller.op = "getAll" THEN WorkflowsCategory
    ELSE IF caller.op = "getPipelines" THEN CategoryOfType(caller.objectType)
    ELSE Undef

\* A request of the caller returns a collection in this step.
Returns(c) ==
    /\ callers'[c].pc = "idle"
    /\ callers'[c].ret.kind = "value"
    /\ callers[c].pc # "idle" \/ (requests' # requests /\ starter' = c)

\* C10: a category is fetched once.  While the requests come one after the
\* other: a request for a category whose collection is memoized, be it
\* empty, causes no upstream request at all, leaves the memoized collection
\* as it is and returns it; every request that returns a collection returns
\* the memoized one; and once a request for the category has returned a
\* collection, exactly one list fetch for it has been answered, however
\* many requests follow.  The pipelines of an object type are memoized
\* under its lowercased name.  (A list fetch that fails memoizes nothing:
\* the request raises and the next one fetches again.)
C10_FetchedOnce ==
    [][ ~concurrent' =>
          /\ \A category \in Categories :
                /\ Memo(category).loaded =>
                      /\ listFetches'[category] = listFetches[category]
                      /\ okFetches'[category] = okFetches[category]
                      /\ Memo(category)' = Memo(category)
                /\ okFetches'[category] <= 1
                /\ Memo(category)'.loaded => okFetches'[category] = 1
                /\ Memo(category)'.loaded => listFetches'[category] >= 1
          /\ workflows.loaded => batchReads' = batchReads
          /\ \A c \in Callers :
                /\ Returns(c) =>
                      \A category \in Categories :
                          CategoryOf(callers'[c]) = category =>
                              /\ Memo(category)'.loaded
                              /\ callers'[c].ret.items = Memo(category)'.items
                /\ (~Busy(c) /\ requests' # requests /\ callers'[c].op # "none") =>
                      \A category \in Categories :
                          (CategoryOf(callers'[c]) = category /\ Memo(category).loaded) =>
                              callers'[c].pc \in {"idle", "loaded"}
      ]_vars

\* Three requests, one after the other, for a category whose collection is
\* empty: one list fetch, and the last request returned the empty collection.
C10_Witness ==
    /\ ~concurrent
    /\ requests = 3
    /\ \A c \in Callers : ~Busy(c)
    /\ \E category \in Categories :
          /\ Memo(category) = Loaded(<<>>)
          /\ listFetches[category] = 1
          /\ \A other \in Categories \ {category} : listFetches[other] = 0
          /\ \A c \in Callers : callers[c].ret \in {NoResult, Returned(<<>>)}

\* The collection is one the load assembles from a whole list response: every
\* flow of the response, in its order, with its actions from the list or from
\* its detail.
Assembled(items) ==
    \E flows \in FlowLists :
        /\ Len(items) = Len(flows)
        /\ \A k \in 1..Len(flows) :
              /\ items[k].id = flows[k].id
              /\ items[k].actions \in
                    (IF flows[k].hasActions THEN {"list", "detail"} ELSE {"empty", "detail"})

\* What may be memoized for a category: nothing, or a whole collection.
Complete(category) ==
    Memo(category).loaded =>
        IF category = WorkflowsCategory THEN Assembled(Memo(category).items)
                                        ELSE Memo(category).items \in PipelineLists

\* C11: the load is not deduplicated, and still nothing half-built is seen.
\* A list fetch is issued only by a request as it starts, one fetch by one
\* request and only while the category is not populated (so a caller that
\* starts after the population issues none); the memoized entry of a category
\* is absent at first and every step that changes it stores a whole
\* collection; and a caller that returns a collection returns the memoized one.
C11_UndeduplicatedButWhole ==
    [][ /\ \A category \in Categories :
              /\ listFetches'[category] \in {listFetches[category], listFetches[category] + 1}
              /\ listFetches'[category] # listFetches[category] =>
                    /\ requests' = requests + 1
                    /\ ~Memo(category).loaded
                    /\ \A other \in Categories \ {category} :
                          listFetches'[other] = listFetches[other]
              /\ Memo(category)' # Memo(category) => Complete(category)'
        /\ \A c \in Callers :
              Returns(c) =>
                  \A category \in Categories :
                      CategoryOf(callers'[c]) = category =>
                          /\ Memo(category)'.loaded
                          /\ callers'[c].ret.items = Memo(category)'.items
      ]_vars

\* Two callers asked for the workflows before either load had completed: two
\* list fetches were issued, the long list was read in chunks, and both
\* callers returned the whole collection.
C11_Witness ==
    /\ concurrent
    /\ listFetches[WorkflowsCategory] = 2
    /\ requests = 2
    /\ workflows.loaded
    /\ Len(workflows.items) = Len(LongFlows)
    /\ \A c \in Callers :
          /\ callers[c].op = "getAll"
          /\ callers[c].pc = "idle"
          /\ callers[c].ret = Returned(workflows.items)

\* C12: once the collection of a category has been memoized it is never
\* invalidated, refreshed or replaced: no step of any interleaving of the
\* calls changes a memoized entry.
C12_NeverReplaced ==
    [][ \A category \in Categories :
            Memo(category).loaded => Memo(category)' = Memo(category) ]_vars

\* The ids of the flows at the positions from + 1 .. from + ChunkSize of the list.
IdsFrom(flows, from) ==
    {flows[k].id : k \in (from + 1)..(IF from + ChunkSize < Len(flows) THEN from + ChunkSize
                                                                       ELSE Len(flows))}

\* What a flow of the list is memoized with when its detail was not fetched.
SummaryOnly(f) == IF f.hasActions THEN "list" ELSE "empty"

\* The load of the caller ends in this step, its last batch read failed or
\* answered, and the memoized result is the list merged with the details.
MergedOnLastChunk(c) ==
    LET me    == callers[c]
        items == workflows'.items
    IN  /\ callers'[c].pc = "loaded"
        /\ batchReads' = batchReads
        /\ workflows'.loaded
        /\ Len(items) = Len(me.flows)
        /\ \A k \in 1..Len(me.flows) :
              LET f == me.flows[k]
              IN  /\ items[k].id = f.id
                  /\ items[k].actions \in {"detail", SummaryOnly(f)}
                  /\ f.id \in me.details => items[k].actions = "detail"
                  /\ (f.id \notin me.details /\ f.id \notin IdsFrom(me.flows, me.i)) =>
                        items[k].actions = SummaryOnly(f)
                  /\ (f.id \notin me.details /\ failedReads' # failedReads) =>
                        items[k].actions = SummaryOnly(f)

\* The caller goes on to the next chunk in this step, whether the batch read
\* failed or answered.
NextChunkPosted(c) ==
    LET me == callers[c]
    IN  /\ callers'[c].pc = "awaitBatch"
        /\ callers'[c].flows = me.flows
        /\ callers'[c].i = me.i + ChunkSize
        /\ batchReads' = batchReads + 1
        /\ workflows' = workflows
        /\ me.details \subseteq callers'[c].details
        /\ callers'[c].details \subseteq me.details \cup IdsFrom(me.flows, me.i)
        /\ failedReads' # failedReads => callers'[c].details = me.details

\* C13: when the list returns summaries lacking actions, detail is read in
\* consecutive chunks of at most ChunkSize ids in list order; a failing chunk
\* is swallowed, and neither aborts the load nor stops the later chunks; and
\* the memoized result holds exactly the flows of the list response, in list
\* order, each with its detail when that was fetched and with its summary
\* otherwise.
C13_ChunkedTolerantLoad ==
    [][ \A c \in Callers :
          /\ callers'[c].pc = "awaitBatch" =>
                /\ needsDetail(callers'[c].flows)
                /\ callers'[c].i % ChunkSize = 0
                /\ callers'[c].i < Len(callers'[c].flows)
                /\ Cardinality(IdsFrom(callers'[c].flows, callers'[c].i)) \in 1..ChunkSize
          /\ (callers[c].pc = "awaitList" /\ callers'[c].pc = "awaitBatch") =>
                /\ callers'[c].i = 0
                /\ callers'[c].details = {}
                /\ batchReads' = batchReads + 1
          /\ (callers[c].pc = "awaitBatch" /\ callers'[c] # callers[c]) =>
                IF callers[c].i + ChunkSize < Len(callers[c].flows)
                THEN NextChunkPosted(c)
                ELSE MergedOnLastChunk(c)
          /\ (callers[c].pc = "awaitBatch" /\ failedReads' # failedReads) =>
                \E d \in Callers : callers[d].pc = "awaitBatch" /\ callers'[d] # callers[d]
      ]_vars

\* The long list was loaded with its first batch read failing: the second
\* batch read was made all the same, and the flows of the first chunk are
\* memoized with their summaries before the flow of the second with its detail.
C13_Witness ==
    /\ ~concurrent
    /\ batchReads = 2
    /\ failedReads = 1
    /\ workflows.loaded
    /\ Len(workflows.items) = Len(LongFlows)
    /\ \A k \in 1..Len(LongFlows) :
          /\ workflows.items[k].id = LongFlows[k].id
          /\ workflows.items[k].actions =
                (IF k \in 1..ChunkSize THEN "empty" ELSE "detail")
    /\ \E c \in Callers : callers[c].ret = Returned(workflows.items)

\* C14: the list load is paginated: the load follows the continuation token
\* of each list page until a page carries none, so the memoized workflows,
\* and with them what getAll returns, came from a list response that left
\* no page unread.
C14_FollowsContinuation ==
    \A c \in Callers :
        (callers[c].op = "getAll" /\ callers[c].ret.kind = "value") =>
            (workflows.loaded /\ lastAfter = Undef)

\* The caller begins a request in this step.
Starts(c) == requests' # requests /\ starter' = c

\* The caller's getById call takes a step: it begins, or its GET is answered.
GetByIdStep(c) ==
    \/ Starts(c) /\ callers'[c].op = "getById"
    \/ callers[c].pc = "awaitById" /\ callers'[c] # callers[c]

\* The flow is in the loaded collection.
Holds(flowId) ==
    /\ workflows.loaded
    /\ \E k \in 1..Len(workflows.items) : workflows.items[k].id = flowId

\* C15: getById answers from the memoized collection, with no upstream
\* request, when the collection is loaded and holds the id; otherwise it
\* makes one GET of the single flow; no step of getById populates or changes
\* the memoized collection (or any other memo); and a failing GET yields
\* null, so that getById never raises.
C15_GetById ==
    [][ \A c \in Callers :
          /\ GetByIdStep(c) =>
                /\ workflows' = workflows
                /\ pipelineCache' = pipelineCache
                /\ listFetches' = listFetches
                /\ batchReads' = batchReads
                /\ callers'[c].ret.kind # "error"
          /\ (Starts(c) /\ callers'[c].op = "getById") =>
                IF Holds(callers'[c].flowId)
                THEN /\ directFetches' = directFetches
                     /\ callers'[c].pc = "idle"
                     /\ callers'[c].ret.kind = "item"
                     /\ callers'[c].ret.item.id = callers'[c].flowId
                     /\ \E k \in 1..Len(workflows.items) :
                           callers'[c].ret.item = workflows.items[k]
                ELSE /\ directFetches' = directFetches + 1
                     /\ callers'[c].pc = "awaitById"
          /\ (callers[c].pc = "awaitById" /\ callers'[c] # callers[c]) =>
                /\ directFetches' = directFetches
                /\ callers'[c].pc = "idle"
                /\ callers'[c].ret.kind \in {"item", "null"}
                /\ callers'[c].ret.kind = "item" =>
                      callers'[c].ret.item.id = callers[c].flowId
      ]_vars

\* With the workflows loaded, one getById was answered from the collection
\* and one, for a flow the collection does not hold, made the single GET,
\* which failed: null came back and the collection is as it was loaded.
C15_Witness ==
    /\ directFetches = 1
    /\ listFetches[WorkflowsCategory] = 1
    /\ workflows = Loaded(Merged(<<ListedFlow("w1", TRUE)>>, {}))
    /\ \E c, d \in Callers :
          /\ callers[c].op = "getById" /\ callers[c].flowId = "w1"
          /\ callers[c].ret = Found(workflows.items[1])
          /\ callers[d].op = "getById" /\ callers[d].flowId = "w9"
          /\ callers[d].ret = NotFound

\* The list fetch the caller waits for fails in this step: the caller leaves
\* its wait and no answer is counted.
ListFetchFails(c) ==
    /\ callers[c].pc \in {"awaitList", "awaitPipelines"}
    /\ callers'[c] # callers[c]
    /\ okFetches' = okFetches

\* C16: the caches do not retry.  When the list fetch of a getAll or
\* getPipelines call fails, the call raises to its caller with no further
\* fetch, and nothing is memoized for any category, be it empty or partial
\* (so a category that no other load populates stays unpopulated); and a
\* request for a category that is not populated issues a fresh list fetch.
C16_NoRetry ==
    [][ \A c \in Callers :
          /\ ListFetchFails(c) =>
                /\ callers'[c].pc = "idle"
                /\ callers'[c].ret = Raised
                /\ listFetches' = listFetches
                /\ batchReads' = batchReads
                /\ workflows' = workflows
                /\ pipelineCache' = pipelineCache
                /\ ~concurrent => ~Memo(CategoryOf(callers[c])).loaded
          /\ \A category \in Categories :
                (Starts(c) /\ CategoryOf(callers'[c]) = category
                    /\ ~Memo(category).loaded) =>
                      /\ listFetches'[category] = listFetches[category] + 1
                      /\ callers'[c].pc \in {"awaitList", "awaitPipelines"}
      ]_vars

\* The first getAll raised, its list fetch having failed, and the second
\* getAll fetched the list again and returned the collection.
C16_Witness ==
    /\ ~concurrent
    /\ requests = 2
    /\ listFetches[WorkflowsCategory] = 2
    /\ okFetches[WorkflowsCategory] = 1
    /\ workflows.loaded
    /\ callers[1].op = "getAll" /\ callers[1].ret = Raised
    /\ callers[2].op = "getAll" /\ callers[2].ret = Returned(workflows.items)

\* ----------------------------------------------------------------------
\* fuzzyScore and fuzzyMatch
\* ----------------------------------------------------------------------

\* Every text that is scored.
ScoredTexts == Texts \cup PipelineQueries \cup PipelineLabels

\* Each text in lower case, and its length.
Lowered == [text \in ScoredTexts |-> ToLowerCase(text)]

Length == [text \in ScoredTexts |-> Len(text)]

\* The texts that contain part when case is ignored.
Containing ==
    [part \in ScoredTexts |-> {whole \in ScoredTexts : Includes(Lowered[whole], Lowered[part])}]

\* The least number of single-character insertions, deletions and
\* substitutions that turn a into b, by the recurrence over their suffixes.
EditDistance(a, b) ==
    LET la == Len(a)
        lb == Len(b)
        ed[i \in 1..(la + 1), j \in 1..(lb + 1)] ==
            IF i > la THEN lb + 1 - j
            ELSE IF j > lb THEN la + 1 - i
            ELSE Min3(1 + ed[i + 1, j],
                      1 + ed[i, j + 1],
                      (IF CharAt(a, i) = CharAt(b, j) THEN 0 ELSE 1) + ed[i + 1, j + 1])
    IN  ed[1, 1]

Distance == [a \in Texts |-> [b \in Texts |-> EditDistance(Lowered[a], Lowered[b])]]

\* The score equals num/den.
ScoreIs(score, num, den) == score.den > 0 /\ score.num * den = num * score.den

\* The first rule, in the order of the contract, that applies to the pair.
RuleFor(query, candidate) ==
    IF query = candidate THEN "identical"
    ELSE IF Lowered[query] = Lowered[candidate] THEN "equal ignoring case"
    ELSE IF candidate \in Containing[query] THEN "candidate contains query"
    ELSE IF query \in Containing[candidate] THEN "query contains candidate"
    ELSE "edit distance"

\* The call made the result of the rule that applies first.
ByTheRules(made) ==
    LET q == made.query
        c == made.candidate
        r == made.result
        lq == Length[q]
        lc == Length[c]
        longer == IF lq >= lc THEN lq ELSE lc
        rule == RuleFor(q, c)
    IN  /\ rule = "identical" =>
               r.matchType = "exact" /\ ScoreIs(r.score, 1, 1)
        /\ rule = "equal ignoring case" =>
               r.matchType = "case-insensitive" /\ ScoreIs(r.score, 95, 100)
        /\ rule = "candidate contains query" =>
               r.matchType = "substring" /\ ScoreIs(r.score, 6 * lc + 3 * lq, 10 * lc)
        /\ rule = "query contains candidate" =>
               r.matchType = "substring" /\ ScoreIs(r.score, 5 * lq + 3 * lc, 10 * lq)
        /\ rule = "edit distance" =>
               r.matchType = "levenshtein"
               /\ ScoreIs(r.score, 6 * (longer - Distance[q][c]), 10 * longer)
        /\ r.score.den > 0
        /\ 0 <= r.score.num
        /\ r.score.num <= r.score.den

\* C17: every fuzzyScore call returns the result of the first applicable
\* rule, in the order identical (1.0 'exact', two empty strings included),
\* equal ignoring case (0.95 'case-insensitive'), candidate contains query
\* (0.6 + 0.3*len(query)/len(candidate), 'substring'), query contains
\* candidate (0.5 + 0.3*len(candidate)/len(query), 'substring'), otherwise
\* 0.6*(1 - editDistance/max(len)) over the lowercased strings
\* ('levenshtein'); and the score lies within [0,1].
C17_FirstApplicableRule ==
    /\ scored.called => ByTheRules(scored)
    /\ prevScored.called => ByTheRules(prevScored)

\* Two empty strings were scored as exact and then two seven-letter strings
\* one substitution apart were scored by their edit distance.
C17_Witness ==
    /\ prevScored.called /\ prevScored.query = "" /\ prevScored.candidate = ""
    /\ prevScored.result.matchType = "exact" /\ prevScored.result.score = One
    /\ scored.called /\ scored.query = "aaaaaaa" /\ scored.candidate = "aaaaaab"
    /\ scored.result.matchType = "levenshtein" /\ scored.result.score = Frac(18, 35)

\* The fuzzyScore calls the state remembers.
ScoreCalls == {made \in {scored, prevScored} : made.called}

ByEditDistance(made) == made.result.matchType = "levenshtein"

\* The call was answered by the rule for a candidate that contains the query.
ByCandidateContains(made) ==
    made.result.matchType = "substring" /\ made.candidate \in Containing[made.query]

\* The call was answered by the rule for a query that contains the candidate.
ByQueryContains(made) ==
    made.result.matchType = "substring" /\ made.candidate \notin Containing[made.query]

\* C18 as stated: every score of the edit-distance rule is lower than every
\* score of the two substring rules.
C18_BelowEverySubstringScore ==
    \A x, y \in ScoreCalls :
        (ByEditDistance(x) /\ y.result.matchType = "substring") =>
            Less(x.result.score, y.result.score)

\* C18: every score of the edit-distance rule is lower than 0.6 and so lower
\* than every score of the candidate-contains-query rule, which is 0.6 at
\* least; the scores of the query-contains-candidate rule start at 0.5 and
\* stay below 0.8, and an edit-distance score can reach or exceed them.
C18_BelowCandidateContains ==
    \A x, y \in ScoreCalls :
        /\ ByEditDistance(x) => Less(x.result.score, Frac(6, 10))
        /\ ByCandidateContains(y) => ~Less(y.result.score, Frac(6, 10))
        /\ (ByEditDistance(x) /\ ByCandidateContains(y)) =>
               Less(x.result.score, y.result.score)
        /\ ByQueryContains(y) =>
               ~Less(y.result.score, Frac(5, 10)) /\ Less(y.result.score, Frac(8, 10))

\* An empty query was scored 0.6 against "a", the lowest score of a
\* containing candidate, and then two seven-letter strings one edit apart
\* were scored 18/35 by edit distance.
C18_Witness ==
    /\ prevScored.called /\ prevScored.query = "" /\ prevScored.candidate = "a"
    /\ ByCandidateContains(prevScored) /\ prevScored.result.score = Frac(6, 10)
    /\ scored.called /\ scored.query = "aaaaaaa" /\ scored.candidate = "aaaaaab"
    /\ ByEditDistance(scored) /\ scored.result.score = Frac(18, 35)

\* The texts that contain part as it is written.
LiterallyContaining == [part \in Texts |-> {whole \in Texts : Includes(whole, part)}]

\* y scored the strings of x the other way round.
Swapped(x, y) == y.query = x.candidate /\ y.candidate = x.query

\* C19 as stated: when one string is literally a substring of the other and
\* a substring rule scores the pair, fuzzyScore(q, c) and fuzzyScore(c, q)
\* have the same score.
C19_SymmetricOnSubstrings ==
    \A x, y \in ScoreCalls :
        (/\ Swapped(x, y)
         /\ x.result.matchType = "substring"
         /\ (x.candidate \in LiterallyContaining[x.query]
             \/ x.query \in LiterallyContaining[x.candidate])) =>
            x.result.score = y.result.score

\* C19: fuzzyScore(q, c) and fuzzyScore(c, q) always have the same match
\* type. Under the substring rules their scores are never equal: the call
\* whose candidate contains its query scores exactly 0.1 more than the call
\* the other way round, which the query-contains-candidate rule answers.
\* Under the other rules (exact, case-insensitive, levenshtein) the two
\* scores are equal.
C19_SubstringScoresDifferByTenth ==
    \A x, y \in ScoreCalls :
        Swapped(x, y) =>
            /\ x.result.matchType = y.result.matchType
            /\ ByCandidateContains(x) =>
                   /\ ByQueryContains(y)
                   /\ x.result.score = Plus(y.result.score, Frac(1, 10))
            /\ x.result.matchType # "substring" => x.result.score = y.result.score

\* "a" was scored 0.75 against "ab", which contains it, and then "ab" was
\* scored 0.65 against "a".
C19_Witness ==
    /\ prevScored.called /\ prevScored.query = "a" /\ prevScored.candidate = "ab"
    /\ prevScored.result = FuzzyResult(Frac(75, 100), "substring")
    /\ scored.called /\ scored.query = "ab" /\ scored.candidate = "a"
    /\ scored.result = FuzzyResult(Frac(65, 100), "substring")

\* The positions of the candidates that the query scores above 0.3.
AboveThreshold(query, candidates) ==
    {k \in 1..Len(candidates) :
        Less(Frac(3, 10), Scored[query][candidates[k].name].score)}

\* C20: every fuzzyMatch call returns exactly the candidates whose
\* fuzzyScore against the query is greater than 0.3, each once and with its
\* own score and match type, in descending order of score, candidates with
\* equal scores in their input order.
C20_FilteredBestFirst ==
    matches.called =>
        LET q == matches.query
            cs == matches.candidates
            r == matches.result
        IN  /\ Len(r) = Cardinality(AboveThreshold(q, cs))
            /\ {r[i].item : i \in 1..Len(r)} = {cs[k] : k \in AboveThreshold(q, cs)}
            /\ \A i \in 1..Len(r) :
                   /\ r[i].score = Scored[q][r[i].item.name].score
                   /\ r[i].matchType = Scored[q][r[i].item.name].matchType
            /\ \A i, j \in 1..Len(r) :
                   i < j =>
                       /\ ~Less(r[i].score, r[j].score)
                       /\ r[i].score = r[j].score => r[i].item.id < r[j].item.id

\* "ab" was matched against a, ba, Ab, A: ba is dropped, Ab comes first and
\* the tied a and A follow in their input order.
C20_Witness ==
    /\ matches.called
    /\ matches.query = "ab"
    /\ matches.candidates = Candidates(<<"a", "ba", "Ab", "A">>)
    /\ matches.result =
           << [item |-> Candidate(3, "Ab"), score |-> Frac(95, 100), matchType |-> "case-insensitive"],
              [item |-> Candidate(1, "a"), score |-> Frac(65, 100), matchType |-> "substring"],
              [item |-> Candidate(4, "A"), score |-> Frac(65, 100), matchType |-> "substring"] >>

\* The positions of the candidates that equal the query when case is
\* ignored, and of those that contain it without being equal to it.
EqualIgnoringCase(query, candidates) ==
    {k \in 1..Len(candidates) : Lowered[candidates[k].name] = Lowered[query]}

ContainingQuery(query, candidates) ==
    {k \in 1..Len(candidates) :
        /\ candidates[k].name \in Containing[query]
        /\ Lowered[candidates[k].name] # Lowered[query]}

\* C21: when one candidate equals the query ignoring case (and is not
\* identical to it), it is the first match, with score 0.95 and type
\* 'case-insensitive', and no other match scores that high; when the query
\* is contained in every candidate, all of them are returned as substring
\* matches with score 0.6 + 0.3*len(query)/len(candidate), higher coverage
\* first, candidates of equal length in their input order.
C21_ResolverExamples ==
    matches.called =>
        LET q == matches.query
            cs == matches.candidates
            r == matches.result
            equal == EqualIgnoringCase(q, cs)
        IN  /\ (Cardinality(equal) = 1 /\ \A k \in equal : cs[k].name # q) =>
                   /\ Len(r) >= 1
                   /\ r[1].item \in {cs[k] : k \in equal}
                   /\ r[1].matchType = "case-insensitive"
                   /\ ScoreIs(r[1].score, 95, 100)
                   /\ \A i \in 2..Len(r) : Less(r[i].score, r[1].score)
            /\ ContainingQuery(q, cs) = 1..Len(cs) =>
                   /\ Len(r) = Len(cs)
                   /\ {r[i].item : i \in 1..Len(r)} = {cs[k] : k \in 1..Len(cs)}
                   /\ \A i \in 1..Len(r) :
                          /\ r[i].matchType = "substring"
                          /\ ScoreIs(r[i].score,
                                     6 * Length[r[i].item.name] + 3 * Length[q],
                                     10 * Length[r[i].item.name])
                   /\ \A i, j \in 1..Len(r) :
                          i < j =>
                              /\ Length[r[i].item.name] <= Length[r[j].item.name]
                              /\ Length[r[i].item.name] = Length[r[j].item.name] =>
                                     r[i].item.id < r[j].item.id

\* 'Pipeline' was matched against Support Pipeline, Legal Pipeline and Sales
\* Pipeline: the two shorter labels tie and come first in their input order.
C21_Witness ==
    /\ matches.called
    /\ matches.query = "Pipeline"
    /\ matches.candidates = Candidates(<<"Support Pipeline", "Legal Pipeline", "Sales Pipeline">>)
    /\ Len(matches.result) = 3
    /\ matches.result[1].item = Candidate(2, "Legal Pipeline")
    /\ matches.result[2].item = Candidate(3, "Sales Pipeline")
    /\ matches.result[3].item = Candidate(1, "Support Pipeline")
    /\ matches.result[1].score = matches.result[2].score
    /\ matches.result[3].score = Frac(75, 100)

\* 'sales pipeline' was matched against Sales Pipeline and Support Pipeline:
\* Sales Pipeline comes first with 0.95, Support Pipeline follows by edit
\* distance.
C21_CaseInsensitiveFirst ==
    /\ matches.called
    /\ matches.query = "sales pipeline"
    /\ matches.candidates = Candidates(<<"Sales Pipeline", "Support Pipeline">>)
    /\ Len(matches.result) = 2
    /\ matches.result[1] =
           [item |-> Candidate(1, "Sales Pipeline"), score |-> Frac(95, 100),
            matchType |-> "case-insensitive"]
    /\ matches.result[2].item = Candidate(2, "Support Pipeline")
    /\ matches.result[2].matchType = "levenshtein"

\* ----------------------------------------------------------------------
\* search_crm
\* ----------------------------------------------------------------------

\* The filters on the property, in the order they were added.
FiltersOn(filters, propertyName) ==
    SelectSeq(filters, LAMBDA f : f.propertyName = propertyName)

StageProperties == {"dealstage", "hs_pipeline_stage"}

StageFilters(filters) == SelectSeq(filters, LAMBDA f : f.propertyName \in StageProperties)

\* The call resolved its pipeline, or its stage, with a confidence below 0.7.
LowPipeline(s) == s.resolved.resolved /\ Less(s.resolved.confidence, Frac(7, 10))

LowStage(s) ==
    /\ s.resolved.resolved
    /\ s.resolved.stage.found
    /\ Less(s.resolved.stage.stageConfidence, Frac(7, 10))

\* A search went upstream in this step.
Posts == posted' # posted

\* C22: search_crm never sends the search with a pipeline filter whose
\* pipeline was resolved with confidence below 0.7, nor with a stage filter
\* whose stage was resolved with confidence below 0.7; a call that resolves
\* its pipeline below 0.7 returns the AMBIGUOUS_PIPELINE_MATCH warning, one
\* that resolves its stage below 0.7 the AMBIGUOUS_STAGE_MATCH warning, and
\* neither sends a search.
C22_NoLowConfidenceSearch ==
    [][/\ Posts =>
             /\ posted' = Append(posted, Posted(search'))
             /\ ~LowPipeline(search')
             /\ ~LowStage(search')
             /\ \A k \in 1..Len(search'.allFilters) :
                    LET f == search'.allFilters[k]
                    IN  /\ f.propertyName = "pipeline" =>
                               /\ search'.resolved.resolved
                               /\ f.value = search'.resolved.pipelineId
                        /\ f.propertyName \in StageProperties =>
                               /\ search'.resolved.resolved /\ search'.resolved.stage.found
                               /\ f.value = search'.resolved.stage.stageId
       /\ LowPipeline(search') =>
             /\ ~Posts
             /\ search'.pc = "idle"
             /\ search'.response.kind = "warning"
             /\ search'.response.warning = "AMBIGUOUS_PIPELINE_MATCH"
       /\ (LowStage(search') /\ ~LowPipeline(search')) =>
             /\ ~Posts
             /\ search'.pc = "idle"
             /\ search'.response.kind = "warning"
             /\ search'.response.warning = "AMBIGUOUS_STAGE_MATCH"]_vars

\* A first call sent its search with a pipeline filter and a stage filter,
\* both resolved with confidence 0.7 or more; a second call resolved its
\* stage with confidence 0.65 and returned the stage warning without a search.
C22_Witness ==
    /\ Len(posted) = 1
    /\ Len(FiltersOn(posted[1].filters, "pipeline")) = 1
    /\ Len(StageFilters(posted[1].filters)) = 1
    /\ ~Less(posted[1].resolved.confidence, Frac(7, 10))
    /\ ~Less(posted[1].resolved.stage.stageConfidence, Frac(7, 10))
    /\ searchCalls = 2
    /\ search.pc = "idle"
    /\ search.response.kind = "warning"
    /\ search.response.warning = "AMBIGUOUS_STAGE_MATCH"
    /\ search.resolved.stage.stageConfidence = Frac(65, 100)

\* The pipelines the call resolved against, and its pipeline matches.
PipelinesOf(s) == pipelineCache[PipelineKey(s.objectType)].items

PipelineMatchesOf(s) == fuzzyMatch(s.pipeline_name, PipelinesOf(s), "label")

\* The stage matches of the call within the pipeline it resolved to.
StageMatchesOf(s) ==
    fuzzyMatch(s.stage_name, PipelineMatchesOf(s)[1].item.stages, "label")

\* C23: a call whose best pipeline match is below 0.7 with more than one
\* pipeline matched reports the first (at most 5) pipeline matches, best
\* first, as the candidates of its AMBIGUOUS_PIPELINE_MATCH warning, also
\* when a stage name was given; a call whose stage match is below 0.7 with
\* more than one stage matched reports the first (at most 5) stage matches
\* with its AMBIGUOUS_STAGE_MATCH warning.
C23_AlternativesOfTheWarning ==
    (search.pc = "idle" /\ search.response.kind = "warning") =>
        /\ (search.response.warning = "AMBIGUOUS_PIPELINE_MATCH"
            /\ Len(PipelineMatchesOf(search)) > 1) =>
               search.response.candidates = Alternatives(PipelineMatchesOf(search))
        /\ (search.response.warning = "AMBIGUOUS_STAGE_MATCH"
            /\ Len(StageMatchesOf(search)) > 1) =>
               search.response.candidates = Alternatives(StageMatchesOf(search))

\* The ids of the stages of the pipeline with this id among the pipelines.
StageIdsIn(pipelines, pipelineId) ==
    UNION {{pipelines[n].stages[k].id : k \in 1..Len(pipelines[n].stages)} :
           n \in {m \in 1..Len(pipelines) : pipelines[m].id = pipelineId}}

\* C29: when search_crm is called for deals or tickets with a pipeline name
\* and a stage name and sends the upstream search, the filters sent hold one
\* filter on the resolved pipeline and one filter on a stage of that
\* pipeline; the stage constraint is never left out.
C29_StageConstraintKept ==
    [][(/\ Posts
        /\ search'.objectType \in PipelineTypes
        /\ Truthy(search'.pipeline_name)
        /\ Truthy(search'.stage_name)) =>
           LET sent == posted'[Len(posted')].filters
               onPipeline == FiltersOn(sent, "pipeline")
               onStage == FiltersOn(sent, stageProperty(search'.objectType))
           IN  /\ Len(onPipeline) = 1
               /\ onPipeline[1].value = search'.resolved.pipelineId
               /\ Len(onStage) = 1
               /\ onStage[1].value \in
                      StageIdsIn(pipelineCache'[PipelineKey(search'.objectType)].items,
                                 onPipeline[1].value)]_vars

\* The seconds the numeric Retry-After values name.
SecondsNamed == ("0" :> 0) @@ ("5" :> 5) @@ ("30" :> 30) @@ ("31" :> 31) @@ ("120" :> 120)

\* The wait in milliseconds the retry is due after a first response with
\* this header: the seconds it names, ten when there is none, thirty at most.
WaitDue(retryAfter) ==
    IF retryAfter = Undef THEN 10 * 1000
    ELSE IF SecondsNamed[retryAfter] <= 30 THEN SecondsNamed[retryAfter] * 1000
    ELSE 30 * 1000

\* A step of the request that fetches a second time.
Refetches == Len(request.attempts) = 1 /\ Len(request'.attempts) = 2

\* A step in which the request returns or throws.
Settles == request.pc = "responded" /\ request'.pc \in {"returned", "raised"}

\* C24: a request makes at most two attempts; it makes the second one only
\* when the first was answered 429 and only after one wait of the seconds the
\* Retry-After header names (ten seconds without header), thirty seconds at
\* most; a first answer with any other status settles the request; a final
\* answer that is not ok, a second 429 included, raises a HubSpotApiError
\* with the status of that answer.
C24_RetriesRateLimitOnce ==
    [][/\ Len(request'.attempts) <= 2
       /\ Refetches =>
              /\ request.attempts[1].status = 429
              /\ Len(request.waits) = 1
              /\ request.waits[1] <= 30 * 1000
              /\ request.attempts[1].retryAfter \in {Undef} \cup DOMAIN SecondsNamed =>
                     request.waits[1] = WaitDue(request.attempts[1].retryAfter)
       /\ Settles =>
              /\ Len(request.attempts) = 2 <=> request.attempts[1].status = 429
              /\ Len(request'.waits) = Len(request.attempts) - 1
              /\ LET final == request.attempts[Len(request.attempts)].status
                 IN  IF final \in 200..299
                     THEN request'.pc = "returned"
                     ELSE /\ request'.pc = "raised"
                          /\ request'.outcome = [kind |-> "HubSpotApiError", status |-> final]]_vars

\* A request answered 429 with Retry-After 120 waited thirty seconds, was
\* answered 429 again and raised the error with status 429.
C24_Witness ==
    /\ request.pc = "raised"
    /\ Len(request.attempts) = 2
    /\ request.attempts[1] = [status |-> 429, retryAfter |-> "120"]
    /\ request.waits = <<30000>>
    /\ request.attempts[2].status = 429
    /\ request.outcome = [kind |-> "HubSpotApiError", status |-> 429]

\* The request reads: it is a GET, or a POST to a search or a batch-read
\* endpoint.
Reads(sent) ==
    \/ sent.method = "GET"
    \/ /\ sent.method = "POST"
       /\ \/ endsWith(sent.pathname, "/search")
          \/ endsWith(sent.pathname, "/batch/read")

\* C25: every upstream request a registered tool or one of the two caches
\* issues is a GET, or a POST to a search or a batch-read endpoint.
C25_ReadOnly ==
    \A n \in 1..Len(toolLog) :
        \A k \in 1..Len(toolLog[n].requests) : Reads(toolLog[n].requests[k])

\* The count of milliseconds the delay action of a flow of MillisFlows carries.
MillisOf(f) ==
    CHOOSE ms \in MillisCounts : f.actions[1].fields \in MillisFields(ms)

\* The duration in the largest unit among days, hours, minutes and seconds
\* that divides the count evenly.
ExactDuration(ms) ==
    IF ms % 86400000 = 0 THEN ToString(ms \div 86400000) \o " days"
    ELSE IF ms % 3600000 = 0 THEN ToString(ms \div 3600000) \o " hours"
    ELSE IF ms % 60000 = 0 THEN ToString(ms \div 60000) \o " minutes"
    ELSE ToString(ms \div 1000) \o " seconds"

\* C27: a delay action that carries only a count of milliseconds is rendered
\* with the duration in the largest unit among days, hours, minutes and
\* seconds that divides the count evenly, so that the value shown times the
\* unit is the count.
C27_EvenlyDividingUnit ==
    (pc = "done" /\ flow \in MillisFlows) =>
        LinesWith(lines, " " \o ExactDuration(MillisOf(flow)) \o " ") # {}

\* The targets of the outgoing edges of an action: its connection, its
\* connections, its listBranches and its default branch.
OutgoingEdges(action) ==
    {id \in {NextOf(action.connection), NextOf(action.defaultBranch)}
           \cup {action.connections[i].nextActionId : i \in 1..Len(action.connections)}
           \cup {NextOf(action.listBranches[i].connection) :
                 i \in 1..Len(action.listBranches)} : Truthy(id)}

RECURSIVE ReachedFrom(_, _, _)
\* The actions reached from the set ids in at most k more edges.
ReachedFrom(map, ids, k) ==
    IF k = 0 THEN ids
    ELSE ReachedFrom(map, ids \cup UNION {OutgoingEdges(map[id]) : id \in ids \cap DOMAIN map},
                     k - 1)

\* The actions of a flow reachable from its start action.
ReachableActions(f) ==
    LET map == ActionMapFrom(f.actions, Len(f.actions))
    IN  ReachedFrom(map, {f.startActionId}, Len(f.actions))

\* A flow of single-connection actions (with a connection at most) and
\* branch containers (with connections, or with listBranches and a default
\* branch), with one action per id, whose start and whose every edge lead to
\* an action of the flow, and in which no path comes back to an action it
\* passed.
WellFormedFlow(f) ==
    /\ Truthy(f.startActionId)
    /\ f.startActionId \in DistinctIds(f)
    /\ Cardinality(DistinctIds(f)) = Len(f.actions)
    /\ \A i \in 1..Len(f.actions) :
          /\ \/ /\ f.actions[i].type = "SINGLE_CONNECTION"
                /\ Len(f.actions[i].connections) = 0
                /\ Len(f.actions[i].listBranches) = 0
                /\ f.actions[i].defaultBranch = NoConn
             \/ /\ isBranch(f.actions[i])
                /\ f.actions[i].connection = NoConn
                /\ \/ Len(f.actions[i].connections) = 0
                   \/ /\ Len(f.actions[i].listBranches) = 0
                      /\ f.actions[i].defaultBranch = NoConn
          /\ OutgoingEdges(f.actions[i]) \subseteq DistinctIds(f)
          /\ f.actions[i].actionId \notin
                 ReachedFrom(ActionMapFrom(f.actions, Len(f.actions)),
                             OutgoingEdges(f.actions[i]), Len(f.actions))
    /\ Len(f.actions) <= MAX_DEPTH

\* C30: in a rendered flow of single-connection actions and branch containers
\* in which every target exists and no path exceeds the depth ceiling, every
\* action reachable from the start action through connection, connections,
\* listBranches and default branch has a step number and the diagram has one
\* box for each of them.
C30_EveryReachableActionDrawn ==
    (pc = "done" /\ WellFormedFlow(flow)) =>
        /\ ReachableActions(flow) \subseteq DOMAIN ctx.visited
        /\ CountBoxes(output) = Cardinality(ReachableActions(flow))

\* The offsets (from 0) at which the one-character string c stands in s.
OffsetsOf(s, c) == {i - 1 : i \in {j \in 1..Len(s) : CharAt(s, j) = c}}

\* The k-th smallest element of a set of numbers.
KthOf(set, k) == CHOOSE x \in set : Cardinality({y \in set : y < x}) = k - 1

\* The offset of the centre of a block of lines set at the offset left.
CentreOf(block, left) == left + Floor2(MaxLineLen(block, 0))

\* a and b are the same offset or neighbours (a rounding apart).
Aligned(a, b) == a - b \in {-1, 0, 1}

\* The step in which a linear action returns its box with the successor
\* under it.
LinearReturns == pc = "ret" /\ Len(stack) > 0 /\ Top.kind = "linear" /\ Len(stack') < Len(stack)

\* The step in which a branch container returns its columns side by side.
BranchReturns == pc = "loop" /\ Len(stack) > 0 /\ Top.kind = "branch" /\ Len(stack') < Len(stack)

\* The successor of a linear action, as it stands in what the action returns,
\* has its centre in the column of the arrow above it.
NextUnderConnector(nextLines, returned) ==
    LET arrowRow == returned[Len(returned) - Len(nextLines)]
        left     == Len(returned[Len(returned)]) - Len(nextLines[Len(nextLines)])
    IN  /\ OffsetsOf(arrowRow, ArrowDown) = {Len(arrowRow) - 1}
        /\ Aligned(CentreOf(nextLines, left), Len(arrowRow) - 1)

\* Every column of a branch container, as it stands in what the container
\* returns, has the centre of its sub-diagram in the column of its arrow.
ColumnsUnderArrows(boxLines, columns, returned) ==
    LET arrows == OffsetsOf(returned[Len(boxLines) + 2 + 3], ArrowDown)
        start  == Max(0, Floor2(Max(Len(renderTerminalBox(boxLines)[1]),
                                    TotalBranchWidth(columns))
                                - TotalBranchWidth(columns)))
    IN  /\ Cardinality(arrows) = Len(columns)
        /\ \A i \in 1..Len(columns) :
              Aligned(CentreOf(columns[i].lines, ColStart(columns, i, start)),
                      KthOf(arrows, i))

\* C26: every block is centred relative to its parent.  The rendering of the
\* next action under a linear box has its centre in the column of the box's
\* bottom connector, whatever its width, and the sub-diagram of every branch
\* column has its centre in the column of the column's down arrow (each up
\* to the rounding of one column).
C26_CentredUnderParent ==
    [][/\ LinearReturns => NextUnderConnector(result, result')
       /\ BranchReturns => ColumnsUnderArrows(Top.boxLines, Top.columns, result')]_vars

\* The structured enrollment criteria upstream returned for the workflow of
\* the call: those of the batch detail or of the direct fetch, else those of
\* the list entry.
UpstreamCriteria(h) ==
    IF h.detail # NoDetail /\ h.detail.enrollmentCriteria # NoCriteria
    THEN h.detail.enrollmentCriteria
    ELSE IF h.listed # NoDetail THEN h.listed.enrollmentCriteria
    ELSE NoCriteria

\* C28: the flow get_workflow hands to the renderer carries the enrollment
\* criteria upstream returned for the workflow in the list, the batch detail
\* or the direct fetch, and the header then shows the structured trigger
\* lines, of which the last is 'Re-enroll: on' or 'Re-enroll: off'.
C28_CriteriaHandedOn ==
    (handed.pc = "rendered" /\ UpstreamCriteria(handed) # NoCriteria) =>
        /\ handed.flow.enrollmentCriteria = UpstreamCriteria(handed)
        /\ handed.header[Len(handed.header)] \in {"Re-enroll: on", "Re-enroll: off"}

=============================================================================
